---------------------------- MODULE Spec2Model ----------------------------
(***************************************************************************)
(* A model of xputils' navdata builder (src/src/navdata.rs and the parsers *)
(* under src/src/navdata/).                                                *)
(*                                                                         *)
(* NavGraph::build_data_from_folder is modelled as a state machine whose   *)
(* position `pc` walks through the files of the folder in the order the    *)
(* code opens them.  Files are read the way the code reads them: lazily,   *)
(* one line at a time, through `file.lines()`; each line an action reads   *)
(* is drawn from a small set.  A row of a file is modelled after           *)
(* parse_row, as the record parse_row returns; a line parse_row rejects is *)
(* the line kind "junk".                                                   *)
(*                                                                         *)
(* Several specifications share the operators:                             *)
(*   Spec         the whole build, from earth_fix.dat to the final todo!() *)
(*   SpecGraph    the airway and hold parsers run on a graph drawn from a  *)
(*                pool of vertices (richer rows than in Spec)              *)
(*   SpecOverlay  the user overlay loops run on bounded base and user      *)
(*                lists                                                    *)
(*   SpecQuery    find_nav_entry and airway_find on a built graph;         *)
(*                SpecQueryFair lets a started call run to its end         *)
(*   SpecAwyRow   airways::parse_row on the text of one line, character by *)
(*                character, and the closure that takes its result         *)
(*   SpecFlags    fix::parse_wpt_flags on the flags of a fix row           *)
(*   SpecLoc      the course split of nav::parse_loc                       *)
(***************************************************************************)
EXTENDS Integers, Sequences, FiniteSets, TLC

VARIABLES
    pc,           \* position of the builder / parser
    budget,       \* data rows the input may still hold (bounds the run)
    header,       \* `header` of the file being parsed
    entries,      \* `entries` collected by the running fix / navaid parser
    fixes,        \* `fixes`: [header, entries] of earth_fix.dat, overlaid
    navaids,      \* `navaids`: [header, entries] of earth_nav.dat, overlaid
    nodes,        \* vertices of nav_graph, in index order
    edges,        \* edges of nav_graph, in insertion order
    parsed_edge,  \* `parsed_edge` of the row the airway / hold parser handled last
    result,       \* what the builder returned (or that it aborted)
    cycles,       \* history: file name -> cycle of its header, once parsed
    accepted,     \* history: the files whose parser returned Ok
    ov,           \* the overlay runs of SpecOverlay
    last_line,    \* history: the line the row loop at hand consumed last
    rp,           \* the run of a row parser's function (SpecAwyRow, SpecFlags, SpecLoc)
    q             \* the query of SpecQuery and its traversal

vars == << pc, budget, header, entries, fixes, navaids, nodes, edges,
           parsed_edge, result, cycles, accepted, ov, last_line, rp, q >>

-----------------------------------------------------------------------------
(* Bounds *)

\* data rows a whole folder may hold in Spec
MaxBuildRows == 3
\* data rows the airway and hold files may hold together in SpecGraph
MaxGraphRows == 1
\* length of the base list and of the user list in SpecOverlay
MaxOverlayLen == 2

-----------------------------------------------------------------------------
(* Small helpers *)

\* the sequences over S of length at most n
SeqsUpTo(S, n) == UNION { [1..k -> S] : k \in 0..n }

\* the lowest index of a set of indices, or 0 when there is none
\* (Iterator::position / Iterator::find returning None)
FirstOf(S) == IF S = {} THEN 0 ELSE CHOOSE i \in S : \A j \in S : i <= j

None == [t |-> "None"]

-----------------------------------------------------------------------------
(* Errors (enum ParseError) *)

Err(e) == [t |-> "Err", err |-> e]
Ok(v) == [t |-> "Ok", val |-> v]

Io == [e |-> "Io"]
Parse(stage) == [e |-> "Parse", stage |-> stage]
BadBOM(bom) == [e |-> "BadBOM", bom |-> bom]
\* the end of the input reported as a failed read
MissingLineAsIo == [e |-> "Io"]
MissingLine == [e |-> "MissingLine"]
BadLastLine(l) == [e |-> "BadLastLine", last_line |-> l]
UnsupportedVersion(v) == [e |-> "UnsupportedVersion", version |-> v]
CycleMismatch(est, new) ==
    [e |-> "CycleMismatch", established_cycle |-> est, new_cycle |-> new]
ReferencedNonexistentWpt(w) == [e |-> "ReferencedNonexistentWpt", wpt |-> w]
InvalidAwyDir(d) == [e |-> "InvalidAwyDir", dir |-> d]
InvalidHoldDir(d) == [e |-> "InvalidHoldDir", dir |-> d]
ConflictingHoldLegLengths(m, d) ==
    [e |-> "ConflictingHoldLegLengths", minutes |-> m, dme |-> d]

-----------------------------------------------------------------------------
(* Lines of a file, as `file.lines()` yields them.  Every line is a record  *)
(* with a kind k: "eof" (the iterator is exhausted), "ioerr" (the read      *)
(* failed), "text" (a literal line s), "hdr" (a line of the shape of the     *)
(* header line), "row" (a line parse_row accepts, with the record it         *)
(* returns) and "junk" (any other line: not empty, not `99`, rejected by     *)
(* the parser it is given to).                                               *)

Eof == [k |-> "eof"]
IoErr == [k |-> "ioerr"]
Text(s) == [k |-> "text", s |-> s]
Junk == [k |-> "junk"]
Row(r) == [k |-> "row", row |-> r]
HeaderLine(v, c, m) == [k |-> "hdr", version |-> v, cycle |-> c, md_type |-> m]

\* a filter that takes a line of one space for an empty one
BlankOrSpace == Text(" ")

Blank == Text("")
Sentinel == Text("99")

\* the text of the line, for the errors that carry it
LineText(l) == IF l.k = "text" THEN l.s ELSE "?"

Cycles == {2401, 2402}
VersionTexts == {"1100", "1101", "1140", "1150", "1200", "1000"}
MdTypes == {"FixXP1100", "FixXP1200", "NavXP1150", "NavXP1200",
            "AwyXP1100", "HoldXP1140"}

-----------------------------------------------------------------------------
(* The header (navdata.rs: parse_header, parse_header_after_bom).  Of the   *)
(* Header struct the model keeps version and cycle; build and copyright are *)
(* parsed and never read again.                                              *)

HeaderOf(v, c) == [version |-> v, cycle |-> c]

\* dispatch! {take(4usize); "1100" => XP1100, ... ; _ => fail}
DataVersionOf(text) ==
    CASE text = "1100" -> "XP1100"
      [] text = "1101" -> "XP1101"
      [] text = "1140" -> "XP1140"
      [] text = "1150" -> "XP1150"
      [] text = "1200" -> "XP1200"
      [] OTHER -> "fail"

parse_header_after_bom(md_types, line) ==
    IF line.k # "hdr" THEN Err(Parse("header"))
    ELSE IF DataVersionOf(line.version) = "fail" THEN Err(Parse("header"))
    ELSE IF line.md_type \notin md_types THEN Err(Parse("header"))
    ELSE Ok(HeaderOf(DataVersionOf(line.version), line.cycle))

\* `first` and `second` are what the first two lines.next() calls yield
parse_header(md_types, first, second) ==
    IF first.k = "eof" THEN Err(MissingLine)
    ELSE IF first.k = "ioerr" THEN Err(Io)
    ELSE IF ~(first.k = "text" /\ first.s \in {"A", "I"})
         THEN Err(BadBOM(LineText(first)))
    ELSE IF second.k = "eof" THEN Err(MissingLine)
    ELSE IF second.k = "ioerr" THEN Err(Io)
    ELSE parse_header_after_bom(md_types, second)

\* the metadata tags each parser's verify_type closure accepts
FixMdTypes == {"FixXP1100", "FixXP1200"}
NavMdTypes == {"NavXP1200", "NavXP1150"}
AwyMdTypes == {"AwyXP1100"}
HoldMdTypes == {"HoldXP1140"}

\* ensure!(matches!(header.version, ...), UnsupportedVersionSnafu {..})
VersionGate(h, versions) ==
    IF h.val.version \in versions THEN h
    ELSE Err(UnsupportedVersion(h.val.version))

\* the head of each parse_file_buffered: header, then the version gate
\* (airways.rs has no gate)
FileHeader(file, first, second) ==
    CASE file \in {"earth_fix", "user_fix"} ->
           LET h == parse_header(FixMdTypes, first, second)
           IN IF h.t = "Err" THEN h ELSE VersionGate(h, {"XP1101", "XP1200"})
      [] file \in {"earth_nav", "user_nav"} ->
           LET h == parse_header(NavMdTypes, first, second)
           IN IF h.t = "Err" THEN h ELSE VersionGate(h, {"XP1150", "XP1200"})
      [] file = "earth_awy" -> parse_header(AwyMdTypes, first, second)
      [] file = "earth_hold" ->
           LET h == parse_header(HoldMdTypes, first, second)
           IN IF h.t = "Err" THEN h ELSE VersionGate(h, {"XP1140"})

-----------------------------------------------------------------------------
(* Entries (fix.rs: Fix, nav.rs: Navaid, navdata.rs: NavEntry).  `lat`      *)
(* stands for the data of an entry that no overlay or lookup compares       *)
(* (lat, lon, elevation, flags, names, frequencies).                         *)

Fix(ident, icao, terminal, lat) ==
    [ident |-> ident, icao_region |-> icao, terminal_region |-> terminal,
     lat |-> lat]

\* TypeSpecificData: the variant kind and the fields the code matches on
TypeData(kind, terminal, display) ==
    [kind |-> kind, terminal_region |-> terminal, display_freq |-> display]
Vor == TypeData("Vor", "", FALSE)
Ndb(terminal) == TypeData("Ndb", terminal, FALSE)
Dme(terminal, display) == TypeData("Dme", terminal, display)
Localizer == TypeData("Localizer", "", FALSE)

Navaid(ident, icao, type_data, lat) ==
    [ident |-> ident, icao_region |-> icao, type_data |-> type_data,
     lat |-> lat]

FixEntry(f) == [t |-> "Fix", fix |-> f]
NavaidEntry(n) == [t |-> "Navaid", navaid |-> n]

\* the ident of a vertex, whichever its variant
EntryIdent(e) == IF e.t = "Fix" THEN e.fix.ident ELSE e.navaid.ident

-----------------------------------------------------------------------------
(* The user overlays (navdata.rs, build_data_from_folder: the two           *)
(* `for user_... in user_....entries` loops).                                *)

\* a comparison of fixes that leaves the terminal region out
FixSameIdNoTerminal(fix, user_fix) ==
    /\ fix.ident = user_fix.ident
    /\ fix.icao_region = user_fix.icao_region

\* the closure given to position() for fixes
FixSameId(fix, user_fix) ==
    /\ fix.ident = user_fix.ident
    /\ fix.icao_region = user_fix.icao_region
    /\ fix.terminal_region = user_fix.terminal_region

\* a comparison of navaids that leaves the variant out
NavaidSameIdNoKind(navaid, user_navaid) ==
    /\ navaid.ident = user_navaid.ident
    /\ navaid.icao_region = user_navaid.icao_region

\* the closure given to position() for navaids; std::mem::discriminant
\* compares the variant of type_data and none of its fields
NavaidSameId(navaid, user_navaid) ==
    /\ navaid.ident = user_navaid.ident
    /\ navaid.icao_region = user_navaid.icao_region
    /\ navaid.type_data.kind = user_navaid.type_data.kind

\* an overlay that pushes every user entry and replaces none
OverlayFixPush(list, user_fix) == Append(list, user_fix)
OverlayNavaidPush(list, user_navaid) == Append(list, user_navaid)

\* one iteration of the loop over user_fixes.entries
OverlayFix(list, user_fix) ==
    LET pos == FirstOf({i \in 1..Len(list) : FixSameId(list[i], user_fix)})
    IN IF pos # 0 THEN [list EXCEPT ![pos] = user_fix]
       ELSE Append(list, user_fix)

\* one iteration of the loop over user_nav.entries
OverlayNavaid(list, user_navaid) ==
    LET pos == FirstOf({i \in 1..Len(list) :
                           NavaidSameId(list[i], user_navaid)})
    IN IF pos # 0 THEN [list EXCEPT ![pos] = user_navaid]
       ELSE Append(list, user_navaid)

\* the whole loop, over the user entries in file order
RECURSIVE OverlayFixes(_, _)
OverlayFixes(list, users) ==
    IF users = << >> THEN list
    ELSE OverlayFixes(OverlayFix(list, Head(users)), Tail(users))

RECURSIVE OverlayNavaids(_, _)
OverlayNavaids(list, users) ==
    IF users = << >> THEN list
    ELSE OverlayNavaids(OverlayNavaid(list, Head(users)), Tail(users))

-----------------------------------------------------------------------------
(* The graph.  A vertex index is a position in `nodes`: petgraph's          *)
(* NodeIndex i is position i + 1 here, and 0 stands for "no vertex"          *)
(* (find() returning None).  An edge is [from, to, w], w the NavEdge.        *)

\* a graph that takes the navaids in before the fixes
GraphNodesNavaidsFirst(fix_entries, navaid_entries) ==
    [i \in 1..Len(navaid_entries) |-> NavaidEntry(navaid_entries[i])]
    \o [i \in 1..Len(fix_entries) |-> FixEntry(fix_entries[i])]

\* for fix in fixes.entries { add_node } for navaid in navaids.entries { add_node }
GraphNodes(fix_entries, navaid_entries) ==
    [i \in 1..Len(fix_entries) |-> FixEntry(fix_entries[i])]
    \o [i \in 1..Len(navaid_entries) |-> NavaidEntry(navaid_entries[i])]

Edge(from, to, w) == [from |-> from, to |-> to, w |-> w]

\* a parsed reference (struct ParsedNodeRef); typ is Ndb, Vhf or Fix
NodeRef(ident, icao, typ) == [ident |-> ident, icao_region |-> icao, typ |-> typ]

\* a predicate that takes any DME for a VHF reference
match_wpt_any_dme(wpt, entry) ==
    CASE wpt.typ = "Fix" /\ entry.t = "Fix" ->
           wpt.ident = entry.fix.ident
           /\ wpt.icao_region = entry.fix.icao_region
      [] wpt.typ = "Vhf" /\ entry.t = "Navaid" ->
           /\ wpt.ident = entry.navaid.ident
           /\ wpt.icao_region = entry.navaid.icao_region
           /\ entry.navaid.type_data.kind \in {"Vor", "Dme"}
      [] wpt.typ = "Ndb" /\ entry.t = "Navaid" ->
           /\ wpt.ident = entry.navaid.ident
           /\ wpt.icao_region = entry.navaid.icao_region
           /\ entry.navaid.type_data.kind = "Ndb"
      [] OTHER -> FALSE

match_wpt_predicate(wpt, entry) ==
    CASE wpt.typ = "Fix" /\ entry.t = "Fix" ->
           wpt.ident = entry.fix.ident
           /\ wpt.icao_region = entry.fix.icao_region
      [] wpt.typ = "Vhf" /\ entry.t = "Navaid" ->
           /\ wpt.ident = entry.navaid.ident
           /\ wpt.icao_region = entry.navaid.icao_region
           /\ \/ entry.navaid.type_data.kind = "Vor"
              \/ /\ entry.navaid.type_data.kind = "Dme"
                 /\ entry.navaid.type_data.display_freq = TRUE
      [] wpt.typ = "Ndb" /\ entry.t = "Navaid" ->
           /\ wpt.ident = entry.navaid.ident
           /\ wpt.icao_region = entry.navaid.icao_region
           /\ entry.navaid.type_data.kind = "Ndb"
      [] OTHER -> FALSE

\* a search that answers the end index when nothing matches
FindWptOrEnd(wpt, ns) ==
    LET found == {i \in 1..Len(ns) : match_wpt_predicate(wpt, ns[i])}
    IN IF found = {} THEN Len(ns) + 1 ELSE FirstOf(found)

\* nav_graph.node_indices().find(match_wpt_predicate(wpt, nav_graph))
FindWpt(wpt, ns) ==
    FirstOf({i \in 1..Len(ns) : match_wpt_predicate(wpt, ns[i])})

-----------------------------------------------------------------------------
(* Airway rows (airways.rs, the closure given to try_for_each).             *)

AwyEdge(pe, name) ==
    [t |-> "Airway", base_fl |-> pe.base_fl, top_fl |-> pe.top_fl,
     is_high |-> pe.is_high, name |-> name]

\* an iteration that adds the forward edge alone for N
AwyNameEdgesForwardOnly(pe, first_wpt_idx, second_wpt_idx, name) ==
    IF pe.direction \in {"N", "F"}
    THEN << Edge(first_wpt_idx, second_wpt_idx, AwyEdge(pe, name)) >>
    ELSE << Edge(second_wpt_idx, first_wpt_idx, AwyEdge(pe, name)) >>

\* the edges one iteration of `for name in parsed_edge.names` adds
AwyNameEdges(pe, first_wpt_idx, second_wpt_idx, name) ==
    (IF pe.direction \in {"N", "F"}
     THEN << Edge(first_wpt_idx, second_wpt_idx, AwyEdge(pe, name)) >>
     ELSE << >>)
    \o
    (IF pe.direction \in {"N", "B"}
     THEN << Edge(second_wpt_idx, first_wpt_idx, AwyEdge(pe, name)) >>
     ELSE << >>)

\* the loop over the names from the i-th on; `es` is the edge list so far.
\* The ensure! on the direction sits inside the loop body.
RECURSIVE AwyNamesLoop(_, _, _, _, _)
AwyNamesLoop(pe, first_wpt_idx, second_wpt_idx, i, es) ==
    IF i > Len(pe.names) THEN [res |-> Ok("row"), edges |-> es]
    ELSE IF pe.direction \notin {"B", "F", "N"}
         THEN [res |-> Err(InvalidAwyDir(pe.direction)), edges |-> es]
    ELSE AwyNamesLoop(pe, first_wpt_idx, second_wpt_idx, i + 1,
                      es \o AwyNameEdges(pe, first_wpt_idx, second_wpt_idx,
                                         pe.names[i]))

\* the error of a first reference that does not resolve
AwyFirstMissing(pe) == ReferencedNonexistentWpt(pe.second.ident)

\* the error of a second reference that does not resolve
AwySecondMissing(pe) == ReferencedNonexistentWpt(pe.second.ident)

\* one row: [res, edges], res the closure's result and edges the graph's
\* edge list after it
AwyRowResult(pe, ns, es) ==
    LET first_wpt_idx == FindWpt(pe.first, ns)
        second_wpt_idx == FindWpt(pe.second, ns)
    IN IF first_wpt_idx = 0
       THEN [res |-> Err(AwyFirstMissing(pe)), edges |-> es]
       ELSE IF second_wpt_idx = 0
       THEN [res |-> Err(AwySecondMissing(pe)), edges |-> es]
       ELSE AwyNamesLoop(pe, first_wpt_idx, second_wpt_idx, 1, es)

-----------------------------------------------------------------------------
(* Hold rows (hold.rs, the closure given to try_for_each).  The f32 leg     *)
(* lengths and course are modelled as integers.                              *)

\* a filter that lets every vertex through
HoldCandidateAny(pe, entry) == TRUE

\* the filter() in front of find(): which vertices a hold may resolve to
HoldCandidate(pe, entry) ==
    CASE entry.t = "Fix" -> entry.fix.terminal_region = pe.terminal_region
      [] entry.t = "Navaid" /\ entry.navaid.type_data.kind = "Vor" ->
           pe.terminal_region = "ENRT"
      [] entry.t = "Navaid" /\ entry.navaid.type_data.kind \in {"Ndb", "Dme"} ->
           entry.navaid.type_data.terminal_region = pe.terminal_region
      [] OTHER -> FALSE

FindHoldPoint(pe, ns) ==
    FirstOf({i \in 1..Len(ns) :
                HoldCandidate(pe, ns[i])
                /\ match_wpt_predicate(pe.hold_point, ns[i])})

\* a match that tries the (0f32, dme) arm first
HoldLegLengthDmeFirst(pe) ==
    IF pe.leg_time_min = 0 THEN Ok([u |-> "DME", v |-> pe.leg_length_nm])
    ELSE IF pe.leg_length_nm = 0 THEN Ok([u |-> "Minutes", v |-> pe.leg_time_min])
    ELSE Err(ConflictingHoldLegLengths(pe.leg_time_min, pe.leg_length_nm))

\* match (leg_time_min, leg_length_nm) { (minutes, 0f32) .. (0f32, dme) .. }
HoldLegLength(pe) ==
    IF pe.leg_length_nm = 0 THEN Ok([u |-> "Minutes", v |-> pe.leg_time_min])
    ELSE IF pe.leg_time_min = 0 THEN Ok([u |-> "DME", v |-> pe.leg_length_nm])
    ELSE Err(ConflictingHoldLegLengths(pe.leg_time_min, pe.leg_length_nm))

\* if x == 0 { None } else { Some(x) }
ZeroIsNone(x) == IF x = 0 THEN None ELSE [t |-> "Some", v |-> x]

HoldEdge(pe, leg_length, turn_direction) ==
    [t |-> "Hold", inbound_crs_mag |-> pe.inbound_crs_mag,
     leg_length |-> leg_length, turn_direction |-> turn_direction,
     min_alt_ft |-> ZeroIsNone(pe.min_alt_ft),
     max_alt_ft |-> ZeroIsNone(pe.max_alt_ft),
     max_spd_kts |-> ZeroIsNone(pe.max_spd_kts)]

\* a closure that looks at the turn direction before the hold point
HoldRowResultDirFirst(pe, ns, es) ==
    LET hold_point_idx == FindHoldPoint(pe, ns)
        leg_length == HoldLegLength(pe)
    IN IF pe.direction \notin {"L", "R"}
       THEN [res |-> Err(InvalidHoldDir(pe.direction)), edges |-> es]
       ELSE IF hold_point_idx = 0
       THEN [res |-> Err(ReferencedNonexistentWpt(pe.hold_point.ident)),
             edges |-> es]
       ELSE IF leg_length.t = "Err"
       THEN [res |-> leg_length, edges |-> es]
       ELSE [res |-> Ok("row"),
             edges |-> Append(es,
                 Edge(hold_point_idx, hold_point_idx,
                      HoldEdge(pe, leg_length.val,
                               IF pe.direction = "L" THEN "Left" ELSE "Right")))]

HoldRowResult(pe, ns, es) ==
    LET hold_point_idx == FindHoldPoint(pe, ns)
        leg_length == HoldLegLength(pe)
    IN IF hold_point_idx = 0
       THEN [res |-> Err(ReferencedNonexistentWpt(pe.hold_point.ident)),
             edges |-> es]
       ELSE IF pe.direction \notin {"L", "R"}
       THEN [res |-> Err(InvalidHoldDir(pe.direction)), edges |-> es]
       ELSE IF leg_length.t = "Err"
       THEN [res |-> leg_length, edges |-> es]
       ELSE [res |-> Ok("row"),
             edges |-> Append(es,
                 Edge(hold_point_idx, hold_point_idx,
                      HoldEdge(pe, leg_length.val,
                               IF pe.direction = "L" THEN "Left" ELSE "Right")))]

-----------------------------------------------------------------------------
(* The builder's position.  pc.file is the file at hand ("graph" and "todo" *)
(* are the two places between and after the files), pc.at is "open" (about  *)
(* to open it), "rows" (its header is read, its parser is in the row loop),  *)
(* "failed" (the builder returned Err there) or "aborted" (it panicked).     *)

Pc(file, at) == [file |-> file, at |-> at]

EarthFiles == {"earth_fix", "earth_nav", "earth_awy", "earth_hold"}
UserFiles == {"user_fix", "user_nav"}
Files == EarthFiles \cup UserFiles

\* what the builder turns to after `file`
NextPlace(file) ==
    CASE file = "earth_fix" -> "user_fix"
      [] file = "user_fix" -> "earth_nav"
      [] file = "earth_nav" -> "user_nav"
      [] file = "user_nav" -> "graph"
      [] file = "graph" -> "earth_awy"
      [] file = "earth_awy" -> "earth_hold"
      [] file = "earth_hold" -> "todo"

\* return Err(e): the `?` and ensure! exits.  The locals of the builder and
\* of the parser are dropped; the graph is kept as it was at the return, so
\* that what a failing row did to it can be told.
Fail(e) ==
    /\ pc' = Pc(pc.file, "failed")
    /\ result' = Err(e)
    /\ budget' = 0
    /\ header' = None
    /\ entries' = << >>
    /\ fixes' = None
    /\ navaids' = None

\* a check that hands the two cycles to the error the wrong way round
CycleCheckSwapped(established_cycle, new_cycle) ==
    IF new_cycle = established_cycle THEN Ok("cycle")
    ELSE Err(CycleMismatch(new_cycle, established_cycle))

\* ensure!(<file>.header.cycle == established_cycle, CycleMismatchSnafu {..})
CycleCheck(established_cycle, new_cycle) ==
    IF new_cycle = established_cycle THEN Ok("cycle")
    ELSE Err(CycleMismatch(established_cycle, new_cycle))

\* File::open, then the head of parse_file_buffered.  `exists` says whether
\* the folder holds the file, `first` and `second` are its first two lines.
OpenFile(exists, first, second) ==
    /\ pc.at = "open"
    /\ pc.file \in Files
    /\ LET h == FileHeader(pc.file, first, second)
       IN IF ~exists
          THEN IF pc.file \in UserFiles
               THEN /\ pc' = Pc(NextPlace(pc.file), "open")
                    /\ UNCHANGED << budget, header, entries, result, cycles,
                                    fixes, navaids >>
               ELSE /\ Fail(Io)
                    /\ UNCHANGED cycles
          ELSE IF h.t = "Err"
               THEN /\ Fail(h.err)
                    /\ UNCHANGED cycles
               ELSE /\ pc' = Pc(pc.file, "rows")
                    /\ header' = h.val
                    /\ entries' = << >>
                    /\ cycles' = [cycles EXCEPT ![pc.file] = h.val.cycle]
                    /\ UNCHANGED << budget, result, fixes, navaids >>
    /\ last_line' = None
    /\ UNCHANGED << nodes, edges, parsed_edge, accepted, ov, rp, q >>

\* a row loop that ends at the first line that is no row
TakesRowsOnly(l) == l.k = "row"

\* peeking_take_while(|l| l.as_ref().map_or(true, |l| l != "99")): the row
\* loop takes the line l in; it leaves a `99` and the end of the input to
\* the check of the last line
TakesLine(l) == l.k = "ioerr" \/ (l.k # "eof" /\ l # Sentinel)

\* lines.next().ok_or_else(|| MissingLine).and_then(|last_line| { let
\* last_line = last_line?; ensure!(last_line == "99", BadLastLineSnafu) })
LastLineCheck(l) ==
    IF l.k = "eof" THEN Err(MissingLine)
    ELSE IF l.k = "ioerr" THEN Err(Io)
    ELSE IF l = Sentinel THEN Ok("last line")
    ELSE Err(BadLastLine(LineText(l)))

\* the stage label of a row that does not parse
RowStage(file) ==
    CASE file \in {"earth_fix", "user_fix"} -> "fix row"
      [] file \in {"earth_nav", "user_nav"} -> "navaid row"
      [] file = "earth_awy" -> "airway row"
      [] file = "earth_hold" -> "hold row"

\* fix::parse_file_buffered / nav::parse_file_buffered returned Ok: what the
\* builder does with the result before it opens the next file
FixNavAccepted ==
    /\ accepted' = accepted \cup {pc.file}
    /\ CASE pc.file = "earth_fix" ->
              /\ fixes' = [header |-> header, entries |-> entries]
              /\ pc' = Pc(NextPlace(pc.file), "open")
              /\ header' = None /\ entries' = << >>
              /\ UNCHANGED << navaids, budget, result >>
         [] pc.file = "user_fix" ->
              /\ fixes' = [fixes EXCEPT
                             !.entries = OverlayFixes(fixes.entries, entries)]
              /\ pc' = Pc(NextPlace(pc.file), "open")
              /\ header' = None /\ entries' = << >>
              /\ UNCHANGED << navaids, budget, result >>
         [] pc.file = "earth_nav" ->
              LET c == CycleCheck(fixes.header.cycle, header.cycle)
              IN IF c.t = "Err"
                 THEN Fail(c.err)
                 ELSE /\ navaids' = [header |-> header, entries |-> entries]
                      /\ pc' = Pc(NextPlace(pc.file), "open")
                      /\ header' = None /\ entries' = << >>
                      /\ UNCHANGED << fixes, budget, result >>
         [] pc.file = "user_nav" ->
              /\ navaids' = [navaids EXCEPT
                               !.entries = OverlayNavaids(navaids.entries, entries)]
              /\ pc' = Pc(NextPlace(pc.file), "open")
              /\ header' = None /\ entries' = << >>
              /\ UNCHANGED << fixes, budget, result >>

\* one line of a fix or navaid file: the filter on empty lines, the
\* peeking_take_while up to `99`, parse_row, and the final lines.next()
FixNavLine(l) ==
    /\ pc.at = "rows"
    /\ pc.file \in {"earth_fix", "user_fix", "earth_nav", "user_nav"}
    /\ IF l = Blank
       THEN UNCHANGED << pc, budget, header, entries, fixes, navaids, result,
                         accepted >>
       ELSE IF ~TakesLine(l)
       THEN IF LastLineCheck(l).t = "Err"
            THEN Fail(LastLineCheck(l).err) /\ UNCHANGED accepted
            ELSE FixNavAccepted
       ELSE IF l.k = "ioerr"
       THEN Fail(Io) /\ UNCHANGED accepted
       ELSE IF l.k = "row"
       THEN /\ entries' = Append(entries, l.row)
            /\ budget' = budget - 1
            /\ UNCHANGED << pc, header, fixes, navaids, result, accepted >>
       ELSE Fail(Parse(RowStage(pc.file))) /\ UNCHANGED accepted
    /\ last_line' = l
    /\ UNCHANGED << nodes, edges, parsed_edge, cycles, ov, rp, q >>

\* DiGraph::with_capacity and the two add_node loops
BuildGraph ==
    /\ pc = Pc("graph", "open")
    /\ nodes' = GraphNodes(fixes.entries, navaids.entries)
    /\ edges' = << >>
    /\ pc' = Pc(NextPlace("graph"), "open")
    /\ UNCHANGED << budget, header, entries, fixes, navaids, parsed_edge,
                    result, cycles, accepted, ov, last_line, rp, q >>

\* airways:: / hold::parse_file_buffered returned Ok(header): the builder's
\* cycle check
AwyHoldAccepted ==
    LET c == CycleCheck(fixes.header.cycle, header.cycle)
    IN /\ accepted' = accepted \cup {pc.file}
       /\ IF c.t = "Err"
          THEN Fail(c.err)
          ELSE /\ pc' = Pc(NextPlace(pc.file), "open")
               /\ header' = None
               /\ UNCHANGED << budget, entries, result, fixes, navaids >>
       /\ UNCHANGED << edges, parsed_edge >>

\* a row of the airway or hold file, handled by the closure of the parser
GraphRow(r, row_result) ==
    /\ parsed_edge' = r
    /\ edges' = row_result.edges
    /\ IF row_result.res.t = "Err"
       THEN Fail(row_result.res.err)
       ELSE /\ budget' = budget - 1
            /\ UNCHANGED << pc, header, entries, result, fixes, navaids >>
    /\ UNCHANGED accepted

\* one line of earth_awy.dat
AwyLine(l) ==
    /\ pc = Pc("earth_awy", "rows")
    /\ IF l = Blank
       THEN UNCHANGED << pc, budget, header, entries, result, accepted, edges,
                         parsed_edge, fixes, navaids >>
       ELSE IF ~TakesLine(l)
       THEN IF LastLineCheck(l).t = "Err"
            THEN Fail(LastLineCheck(l).err)
                 /\ UNCHANGED << accepted, edges, parsed_edge >>
            ELSE AwyHoldAccepted
       ELSE IF l.k = "ioerr"
       THEN Fail(Io) /\ UNCHANGED << accepted, edges, parsed_edge >>
       ELSE IF l.k = "row"
       THEN GraphRow(l.row, AwyRowResult(l.row, nodes, edges))
       ELSE Fail(Parse(RowStage(pc.file)))
            /\ UNCHANGED << accepted, edges, parsed_edge >>
    /\ last_line' = l
    /\ UNCHANGED << nodes, cycles, ov, rp, q >>

\* one line of earth_hold.dat
HoldLine(l) ==
    /\ pc = Pc("earth_hold", "rows")
    /\ IF l = Blank
       THEN UNCHANGED << pc, budget, header, entries, result, accepted, edges,
                         parsed_edge, fixes, navaids >>
       ELSE IF ~TakesLine(l)
       THEN IF LastLineCheck(l).t = "Err"
            THEN Fail(LastLineCheck(l).err)
                 /\ UNCHANGED << accepted, edges, parsed_edge >>
            ELSE AwyHoldAccepted
       ELSE IF l.k = "ioerr"
       THEN Fail(Io) /\ UNCHANGED << accepted, edges, parsed_edge >>
       ELSE IF l.k = "row"
       THEN GraphRow(l.row, HoldRowResult(l.row, nodes, edges))
       ELSE Fail(Parse(RowStage(pc.file)))
            /\ UNCHANGED << accepted, edges, parsed_edge >>
    /\ last_line' = l
    /\ UNCHANGED << nodes, cycles, ov, rp, q >>

\* the todo!() that ends build_data_from_folder: a panic
Todo ==
    /\ pc = Pc("todo", "open")
    /\ pc' = Pc("todo", "aborted")
    /\ result' = [t |-> "Panic"]
    /\ budget' = 0
    /\ UNCHANGED << header, entries, fixes, navaids, nodes, edges, parsed_edge,
                    cycles, accepted, ov, last_line, rp, q >>

-----------------------------------------------------------------------------
(* Inputs *)

\* what the first two lines of a file may be
FirstLines == {Eof, IoErr, Text("A"), Text("I"), Text("X")}
SecondLines ==
    {Eof, IoErr, Junk}
    \cup {HeaderLine(v, c, m) : v \in VersionTexts, c \in Cycles, m \in MdTypes}

\* the header lines of the files of Spec: every tag, and of the versions the
\* one every parser turns down and the ones the four formats are written in
BuildSecondLines ==
    {l \in SecondLines : l.k = "hdr" => l.version \in {"1000", "1100", "1140", "1200"}}

\* a file as OpenFile meets it: absent, or present with its first two lines
\* (the second is read only after a first line `A` or `I`)
OpenInputs(seconds) ==
    {<< FALSE, Eof, Eof >>}
    \cup {<< TRUE, f, Eof >> : f \in FirstLines \ {Text("A"), Text("I")}}
    \cup {<< TRUE, f, l >> : f \in {Text("A"), Text("I")}, l \in seconds}

\* the lines of the row loop that are no rows
PlainLines == {Eof, IoErr, Blank, Sentinel, Junk}

AwyRow(first, second, direction, names) ==
    [first |-> first, second |-> second, direction |-> direction,
     is_high |-> TRUE, base_fl |-> 180, top_fl |-> 450, names |-> names]

HoldRow(hold_point, terminal, direction, minutes, nm) ==
    [hold_point |-> hold_point, terminal_region |-> terminal,
     inbound_crs_mag |-> 315, leg_time_min |-> minutes, leg_length_nm |-> nm,
     direction |-> direction, min_alt_ft |-> 3000, max_alt_ft |-> 0,
     max_spd_kts |-> 230]

\* the rows of the files of Spec
BuildFixRows ==
    {Fix("ABEAM", "K2", "ENRT", 1), Fix("ABEAM", "K2", "ENRT", 2),
     Fix("FIKLO", "K2", "ENRT", 1)}
BuildNavRows ==
    {Navaid("OSI", "K2", Vor, 1), Navaid("OSI", "K2", Ndb("ENRT"), 2)}
BuildRefs ==
    {NodeRef("ABEAM", "K2", "Fix"), NodeRef("FIKLO", "K2", "Fix"),
     NodeRef("OSI", "K2", "Vhf")}
BuildAwyRows ==
    {AwyRow(a, b, d, << "J1" >>) : a \in BuildRefs, b \in BuildRefs,
                                   d \in {"N", "X"}}
BuildHoldRows ==
    {HoldRow(p, "ENRT", "R", 1, 0) :
        p \in {NodeRef("ABEAM", "K2", "Fix"), NodeRef("OSI", "K2", "Ndb")}}

BuildRows(file) ==
    CASE file \in {"earth_fix", "user_fix"} -> BuildFixRows
      [] file \in {"earth_nav", "user_nav"} -> BuildNavRows
      [] file = "earth_awy" -> BuildAwyRows
      [] file = "earth_hold" -> BuildHoldRows
      [] OTHER -> {}

\* the lines a row loop of Spec may read next
BuildLines ==
    PlainLines \cup (IF budget > 0 THEN {Row(r) : r \in BuildRows(pc.file)}
                     ELSE {})

\* the vertices the graphs of SpecGraph are made of, in index order
GraphPool ==
    << FixEntry(Fix("ABEAM", "K2", "ENRT", 1)),
       FixEntry(Fix("ABEAM", "K2", "KSFO", 2)),
       FixEntry(Fix("FIKLO", "K2", "ENRT", 1)),
       NavaidEntry(Navaid("OSI", "K2", Dme("ENRT", FALSE), 3)),
       NavaidEntry(Navaid("OSI", "K2", Vor, 1)),
       NavaidEntry(Navaid("OSI", "K2", Dme("KSFO", TRUE), 4)),
       NavaidEntry(Navaid("OSI", "K2", Ndb("ENRT"), 2)) >>

\* the positions of the pool a graph of SpecGraph takes its vertices from:
\* any of the fixes, the VOR and the NDB, or any of the navaids with a DME
GraphPicks ==
    SUBSET {1, 2, 3, 5, 7}
    \cup {S \in SUBSET {4, 5, 6, 7} : S \cap {4, 6} # {}}

\* the elements of s at the positions in S, in order
RECURSIVE Pick(_, _, _)
Pick(s, S, i) ==
    IF i > Len(s) THEN << >>
    ELSE (IF i \in S THEN << s[i] >> ELSE << >>) \o Pick(s, S, i + 1)

GraphNodeLists == {Pick(GraphPool, S, 1) : S \in GraphPicks}

\* the rows of the files of SpecGraph
GraphRefs ==
    {NodeRef("ABEAM", "K2", "Fix"), NodeRef("FIKLO", "K2", "Fix"),
     NodeRef("OSI", "K2", "Vhf"), NodeRef("OSI", "K2", "Ndb"),
     NodeRef("OSI", "K2", "Fix")}
GraphAwyRows ==
    {AwyRow(a, b, d, n) : a \in GraphRefs, b \in GraphRefs,
                          d \in {"N", "F", "B", "X"},
                          n \in {<< "J1" >>, << "J1", "J101" >>}}
GraphHoldRows ==
    {HoldRow(p, t, d, m, n) : p \in GraphRefs, t \in {"ENRT", "KSFO"},
                              d \in {"L", "R", "X"}, m \in {0, 1}, n \in {0, 5}}

GraphLines ==
    PlainLines
    \cup (IF budget > 0
          THEN {Row(r) : r \in (IF pc.file = "earth_awy" THEN GraphAwyRows
                                ELSE GraphHoldRows)}
          ELSE {})

-----------------------------------------------------------------------------
(* Spec: build_data_from_folder from its first line to its last *)

NoOverlay == [what |-> "none"]

Init ==
    /\ pc = Pc("earth_fix", "open")
    /\ budget = MaxBuildRows
    /\ header = None
    /\ entries = << >>
    /\ fixes = None
    /\ navaids = None
    /\ nodes = << >>
    /\ edges = << >>
    /\ parsed_edge = None
    /\ result = None
    /\ cycles = [f \in Files |-> 0]
    /\ accepted = {}
    /\ ov = NoOverlay
    /\ last_line = None
    /\ rp = None
    /\ q = None

Next ==
    \/ \E in \in OpenInputs(BuildSecondLines) : OpenFile(in[1], in[2], in[3])
    \/ \E l \in BuildLines : FixNavLine(l)
    \/ BuildGraph
    \/ \E l \in BuildLines : AwyLine(l)
    \/ \E l \in BuildLines : HoldLine(l)
    \/ Todo

Spec == Init /\ [][Next]_vars

-----------------------------------------------------------------------------
(* SpecGraph: the row loops of the airway and the hold parser, started on   *)
(* a graph the builder made (fixes first, then navaids) with the header of   *)
(* the file read.                                                            *)

InitGraph ==
    /\ \E ns \in GraphNodeLists, file \in {"earth_awy", "earth_hold"} :
          /\ nodes = ns
          /\ pc = Pc(file, "rows")
          /\ header = HeaderOf(IF file = "earth_awy" THEN "XP1100" ELSE "XP1140",
                               2401)
          /\ cycles = [f \in Files |->
                          IF f = "earth_hold" /\ file = "earth_awy" THEN 0
                          ELSE 2401]
          /\ accepted = IF file = "earth_awy"
                        THEN {"earth_fix", "earth_nav"}
                        ELSE {"earth_fix", "earth_nav", "earth_awy"}
    /\ budget = MaxGraphRows
    /\ entries = << >>
    /\ fixes = [header |-> HeaderOf("XP1200", 2401), entries |-> << >>]
    /\ navaids = [header |-> HeaderOf("XP1200", 2401), entries |-> << >>]
    /\ edges = << >>
    /\ parsed_edge = None
    /\ result = None
    /\ ov = NoOverlay
    /\ last_line = None
    /\ rp = None
    /\ q = None

NextGraph ==
    \/ \E l \in GraphLines : AwyLine(l)
    \/ \E l \in GraphLines : HoldLine(l)

SpecGraph == InitGraph /\ [][NextGraph]_vars

-----------------------------------------------------------------------------
(* SpecOverlay: the overlay loops of build_data_from_folder, run on a base  *)
(* list and a user list as the two parsers may return them.  ov.list is the *)
(* list being overlaid (fixes.entries / navaids.entries), ov.i the place of *)
(* the loop in the user list.  After the loop the same user list is         *)
(* overlaid once more (ov.pass = 2), ov.once keeping the first result.      *)

OverlayFixDom ==
    {Fix("FOO", "K2", "ENRT", 1), Fix("FOO", "K2", "ENRT", 2),
     Fix("FOO", "K2", "KSFO", 1), Fix("FOO", "K1", "ENRT", 1),
     Fix("BAR", "K2", "ENRT", 1)}
OverlayNavaidDom ==
    {Navaid("FOO", "K2", Vor, 1), Navaid("FOO", "K2", Vor, 2),
     Navaid("FOO", "K2", Ndb("ENRT"), 1), Navaid("FOO", "K1", Vor, 1),
     Navaid("BAR", "K2", Vor, 1)}

OverlayRun(what, base, user) ==
    [what |-> what, base |-> base, user |-> user, list |-> base, i |-> 1,
     pass |-> 1, once |-> << >>]

InitOverlay ==
    /\ \E what \in {"fix", "navaid"} :
         \E base, user \in SeqsUpTo(IF what = "fix" THEN OverlayFixDom
                                    ELSE OverlayNavaidDom, MaxOverlayLen) :
            ov = OverlayRun(what, base, user)
    /\ pc = Pc("overlay", "open")
    /\ budget = 0
    /\ header = None
    /\ entries = << >>
    /\ fixes = None
    /\ navaids = None
    /\ nodes = << >>
    /\ edges = << >>
    /\ parsed_edge = None
    /\ result = None
    /\ cycles = [f \in Files |-> 0]
    /\ accepted = {}
    /\ last_line = None
    /\ rp = None
    /\ q = None

\* one iteration of the loop
OverlayStep ==
    /\ ov.what # "none"
    /\ ov.i <= Len(ov.user)
    /\ ov' = [ov EXCEPT
                !.list = IF ov.what = "fix"
                         THEN OverlayFix(ov.list, ov.user[ov.i])
                         ELSE OverlayNavaid(ov.list, ov.user[ov.i]),
                !.i = ov.i + 1]
    /\ UNCHANGED << pc, budget, header, entries, fixes, navaids, nodes, edges,
                    parsed_edge, result, cycles, accepted, last_line, rp, q >>

\* the loop is over: overlay the same user list again
OverlayAgain ==
    /\ ov.what # "none"
    /\ ov.pass = 1
    /\ ov.i > Len(ov.user)
    /\ ov' = [ov EXCEPT !.once = ov.list, !.i = 1, !.pass = 2]
    /\ UNCHANGED << pc, budget, header, entries, fixes, navaids, nodes, edges,
                    parsed_edge, result, cycles, accepted, last_line, rp, q >>

NextOverlay == OverlayStep \/ OverlayAgain

SpecOverlay == InitOverlay /\ [][NextOverlay]_vars

-----------------------------------------------------------------------------
(* SpecQuery: the two queries of NavGraph (navdata.rs: find_nav_entry,      *)
(* airway_find) on a finished graph.  q.at is "call" (the query is about to *)
(* run), "dfs" (airway_find is in its traversal) or "done" (it returned,    *)
(* `result` holding what).  petgraph's DfsPostOrder is modelled by its three *)
(* fields: the stack and the two visit maps `discovered` and `finished`.     *)

\* edges the graphs of SpecQuery may hold
MaxQueryEdges == 2

\* AirwayTraverseError::NotOnAirway; node is a vertex index (Left) or an
\* ident (Right)
NotOnAirway(node, awy, start) ==
    [e |-> "NotOnAirway", node |-> node, awy |-> awy, start |-> start]

\* GraphError::BadNode, as AirwayTraverseError::Graph carries it
BadNode(idx) == [e |-> "BadNode", idx |-> idx]

\* a search that looks at the fixes alone
find_nav_entry_fixes(ns, ident) ==
    SelectSeq([i \in 1..Len(ns) |-> << i, ns[i] >>],
              LAMBDA p : p[2].t = "Fix" /\ p[2].fix.ident = ident)

\* the (index, entry) pairs of the vertices named ident, in index order
find_nav_entry(ns, ident) ==
    SelectSeq([i \in 1..Len(ns) |-> << i, ns[i] >>],
              LAMBDA p : EntryIdent(p[2]) = ident)

\* a filter that lets every airway through
AnyAirway(w, awy) == w.t = "Airway"

\* matches!(weight, NavEdge::Airway(AwyEdge { name, .. }) if name == awy)
IsAirway(w, awy) == w.t = "Airway" /\ w.name = awy

\* graph.edges(n) under the filter: the targets of the edges that leave n
\* and pass, newest edge first (the order of petgraph's adjacency list);
\* i is the edge to look at next
RECURSIVE Neighbors(_, _, _, _)
Neighbors(es, n, awy, i) ==
    IF i = 0 THEN << >>
    ELSE (IF es[i].from = n /\ IsAirway(es[i].w, awy)
          THEN << es[i].to >> ELSE << >>)
         \o Neighbors(es, n, awy, i - 1)

\* a loop that pushes the first neighbor alone
PushFirstUndiscovered(stack, succs, discovered) ==
    IF succs = << >> \/ Head(succs) \in discovered THEN stack
    ELSE Append(stack, Head(succs))

\* for succ in neighbors { if !discovered.is_visited(&succ) { stack.push(succ) } }
RECURSIVE PushUndiscovered(_, _, _)
PushUndiscovered(stack, succs, discovered) ==
    IF succs = << >> THEN stack
    ELSE PushUndiscovered(IF Head(succs) \in discovered THEN stack
                          ELSE Append(stack, Head(succs)),
                          Tail(succs), discovered)

\* a visit map that forgets what was finished
FinishedAnew(nx, finished) == TRUE

\* finished.visit(nx): TRUE when nx is finished for the first time
FinishedFirst(nx, finished) == nx \notin finished

\* a Vec returned as such (find_nav_entry returns no Result)
Vec(v) == [t |-> "Vec", val |-> v]

\* the call of find_nav_entry
FindNavEntry ==
    /\ q.op = "find_nav_entry"
    /\ q.at = "call"
    /\ result' = Vec(find_nav_entry(nodes, q.ident))
    /\ q' = [q EXCEPT !.at = "done"]
    /\ UNCHANGED << pc, budget, header, entries, fixes, navaids, nodes, edges,
                    parsed_edge, cycles, accepted, ov, last_line, rp >>

\* airway_find up to the traversal: the two checks on start
AirwayFindStart ==
    /\ q.op = "airway_find"
    /\ q.at = "call"
    /\ IF q.start \notin 1..Len(nodes)
       THEN /\ result' = Err(BadNode(q.start))
            /\ q' = [q EXCEPT !.at = "done"]
       ELSE IF \A i \in 1..Len(edges) :
                  ~(edges[i].from = q.start /\ IsAirway(edges[i].w, q.awy))
       THEN /\ result' = Err(NotOnAirway(q.start, q.awy, TRUE))
            /\ q' = [q EXCEPT !.at = "done"]
       ELSE /\ q' = [q EXCEPT !.at = "dfs", !.stack = << q.start >>]
            /\ UNCHANGED result
    /\ UNCHANGED << pc, budget, header, entries, fixes, navaids, nodes, edges,
                    parsed_edge, cycles, accepted, ov, last_line, rp >>

\* one turn of the loop of DfsPostOrder::next, with the filter and the
\* collect of airway_find applied to what it yields
DfsStep ==
    /\ q.at = "dfs"
    /\ q.stack # << >>
    /\ LET nx == q.stack[Len(q.stack)]
       IN IF nx \notin q.discovered
          THEN q' = [q EXCEPT
                       !.discovered = q.discovered \cup {nx},
                       !.stack = PushUndiscovered(
                                    q.stack,
                                    Neighbors(edges, nx, q.awy, Len(edges)),
                                    q.discovered \cup {nx})]
          ELSE q' = [q EXCEPT
                       !.stack = SubSeq(q.stack, 1, Len(q.stack) - 1),
                       !.finished = q.finished \cup {nx},
                       !.res = IF FinishedFirst(nx, q.finished)
                                  /\ EntryIdent(nodes[nx]) = q.end
                               THEN Append(q.res, << nx, nodes[nx] >>)
                               ELSE q.res]
    /\ UNCHANGED << pc, budget, header, entries, fixes, navaids, nodes, edges,
                    parsed_edge, result, cycles, accepted, ov, last_line, rp >>

\* the traversal is over: if res.is_empty() { NotOnAirway } else { Ok(res) }
AirwayFindReturn ==
    /\ q.at = "dfs"
    /\ q.stack = << >>
    /\ result' = IF q.res = << >>
                 THEN Err(NotOnAirway(q.end, q.awy, FALSE))
                 ELSE Ok(q.res)
    /\ q' = [q EXCEPT !.at = "done"]
    /\ UNCHANGED << pc, budget, header, entries, fixes, navaids, nodes, edges,
                    parsed_edge, cycles, accepted, ov, last_line, rp >>

\* the vertex lists of the graphs of SpecQuery: idents shared by two
\* vertices, by a fix and a navaid
QueryNodeLists ==
    {<< FixEntry(Fix("ABEAM", "K2", "ENRT", 1)),
        FixEntry(Fix("FIKLO", "K2", "ENRT", 1)),
        NavaidEntry(Navaid("ABEAM", "K2", Vor, 1)) >>,
     << FixEntry(Fix("FIKLO", "K2", "ENRT", 1)),
        NavaidEntry(Navaid("OSI", "K2", Vor, 1)),
        FixEntry(Fix("FIKLO", "K2", "KSFO", 2)) >>}

QueryIdents == {"ABEAM", "FIKLO", "NOPE"}

\* the edges of the graphs of SpecQuery over n vertices, as the airway and
\* the hold parser add them: segments of the airways J1 and J2, a segment
\* from a vertex to itself, holds
QueryEdges(n) ==
    {Edge(a, b, AwyEdge(AwyRow(None, None, "N", << >>), name)) :
        a \in 1..n, b \in 1..n, name \in {"J1", "J2"}}
    \cup {Edge(a, a, HoldEdge(HoldRow(None, "ENRT", "R", 1, 0),
                              [u |-> "Minutes", v |-> 1], "Right")) :
            a \in 1..n}

\* a query not yet run
Query(op, ident, start, awy, end) ==
    [op |-> op, ident |-> ident, start |-> start, awy |-> awy, end |-> end,
     at |-> "call", stack |-> << >>, discovered |-> {}, finished |-> {},
     res |-> << >>]

Queries(n) ==
    {Query("find_nav_entry", x, 0, "", "") : x \in QueryIdents}
    \cup {Query("airway_find", "", start, "J1", end) :
             start \in 1..(n + 1), end \in QueryIdents}

InitQuery ==
    /\ \E ns \in QueryNodeLists :
          /\ nodes = ns
          /\ edges \in SeqsUpTo(QueryEdges(Len(ns)), MaxQueryEdges)
          /\ q \in Queries(Len(ns))
    /\ pc = Pc("query", "open")
    /\ budget = 0
    /\ header = None
    /\ entries = << >>
    /\ fixes = None
    /\ navaids = None
    /\ parsed_edge = None
    /\ result = None
    /\ cycles = [f \in Files |-> 0]
    /\ accepted = {}
    /\ ov = NoOverlay
    /\ last_line = None
    /\ rp = None

NextQuery ==
    \/ FindNavEntry
    \/ AirwayFindStart
    \/ DfsStep
    \/ AirwayFindReturn

SpecQuery == InitQuery /\ [][NextQuery]_vars

\* the traversal is a loop in one call: once started it runs on
SpecQueryFair == SpecQuery /\ WF_vars(NextQuery)

-----------------------------------------------------------------------------
(* airways::parse_row, character by character (SpecAwyRow).  A text is a    *)
(* sequence of one-character strings; a parser takes the input left and     *)
(* answers PFail or POk(value, rest), as a winnow parser fails by           *)
(* backtracking or hands over its output and advances the input.            *)

\* AsChar::is_space
Spaces == {" ", "\t"}
\* AsChar::is_dec_digit, in the order of their values
Digits == << "0", "1", "2", "3", "4", "5", "6", "7", "8", "9" >>

PFail == [ok |-> FALSE]
POk(v, rest) == [ok |-> TRUE, val |-> v, rest |-> rest]

\* how many characters at the head of s lie in the set cs (take_while)
RECURSIVE Lead(_, _)
Lead(s, cs) ==
    IF s = << >> \/ Head(s) \notin cs THEN 0 ELSE 1 + Lead(Tail(s), cs)

\* how many characters at the head of s lie outside the set cs (take_till)
RECURSIVE LeadTill(_, _)
LeadTill(s, cs) ==
    IF s = << >> \/ Head(s) \in cs THEN 0 ELSE 1 + LeadTill(Tail(s), cs)

\* the input after its first n characters
Drop(s, n) == SubSeq(s, n + 1, Len(s))

\* winnow::ascii::space1: one or more spaces and tabs, as many as there are
space1(s) ==
    LET n == Lead(s, Spaces)
    IN IF n = 0 THEN PFail ELSE POk(SubSeq(s, 1, n), Drop(s, n))

\* winnow::ascii::space0: zero or more spaces and tabs
space0(s) ==
    LET n == Lead(s, Spaces)
    IN POk(SubSeq(s, 1, n), Drop(s, n))

\* take_till1(|c| c.is_space()): one or more characters up to the next space
take_till1(s) ==
    LET n == LeadTill(s, Spaces)
    IN IF n = 0 THEN PFail ELSE POk(SubSeq(s, 1, n), Drop(s, n))

\* parse_fixed_str::<N>: space1, then a word that must fit heapless::String<N>
parse_fixed_str(N, s) ==
    LET sp == space1(s)
    IN IF ~sp.ok THEN PFail
       ELSE LET id == take_till1(sp.rest)
            IN IF ~id.ok THEN PFail
               ELSE IF Len(id.val) > N THEN PFail
               ELSE id

\* the value of a digit
DigitValue(c) == (CHOOSE i \in 1..10 : Digits[i] = c) - 1

\* the value of the digits ds read after the value acc
RECURSIVE DecValue(_, _)
DecValue(ds, acc) ==
    IF ds = << >> THEN acc
    ELSE DecValue(Tail(ds), 10 * acc + DigitValue(Head(ds)))

\* winnow::ascii::dec_uint into an integer type whose greatest value is
\* max: one or more digits, failing when the value does not fit
dec_uint(max, s) ==
    LET n == Lead(s, {Digits[i] : i \in 1..10})
        v == DecValue(SubSeq(s, 1, n), 0)
    IN IF n = 0 THEN PFail
       ELSE IF v > max THEN PFail
       ELSE POk(v, Drop(s, n))

\* dispatch! {preceded(space1, dec_uint); 2 => Vhf, 3 => Ndb, 11 => Fix,
\* _ => fail}; the literals of the arms leave the integer type to the
\* default, i32
parse_typ(s) ==
    LET sp == space1(s)
    IN IF ~sp.ok THEN PFail
       ELSE LET n == dec_uint(2147483647, sp.rest)
            IN IF ~n.ok THEN PFail
               ELSE CASE n.val = 2 -> POk("Vhf", n.rest)
                      [] n.val = 3 -> POk("Ndb", n.rest)
                      [] n.val = 11 -> POk("Fix", n.rest)
                      [] OTHER -> PFail

\* preceded(space1, any)
parse_direction(s) ==
    LET sp == space1(s)
    IN IF ~sp.ok THEN PFail
       ELSE IF sp.rest = << >> THEN PFail
       ELSE POk(Head(sp.rest), Tail(sp.rest))

\* dispatch! {preceded(space1, dec_uint::<_, u8, _>); 1 => false, 2 => true,
\* _ => fail}
parse_is_high(s) ==
    LET sp == space1(s)
    IN IF ~sp.ok THEN PFail
       ELSE LET n == dec_uint(255, sp.rest)
            IN IF ~n.ok THEN PFail
               ELSE CASE n.val = 1 -> POk(FALSE, n.rest)
                      [] n.val = 2 -> POk(TRUE, n.rest)
                      [] OTHER -> PFail

\* preceded(space1, dec_uint) into a u16
parse_fl(s) ==
    LET sp == space1(s)
    IN IF ~sp.ok THEN PFail ELSE dec_uint(65535, sp.rest)

\* separated(1.., parse_fixed_str::<5>, "-") after its first element: a
\* separator or an element that fails ends the list in front of the
\* separator
RECURSIVE SeparatedMore(_, _)
SeparatedMore(acc, s) ==
    IF s = << >> \/ Head(s) # "-" THEN POk(acc, s)
    ELSE LET p == parse_fixed_str(5, Tail(s))
         IN IF ~p.ok THEN POk(acc, s)
            ELSE SeparatedMore(Append(acc, p.val), p.rest)

\* delimited(space1, separated(1.., parse_fixed_str::<5>, "-"), space0)
parse_names(s) ==
    LET sp == space1(s)
    IN IF ~sp.ok THEN PFail
       ELSE LET p == parse_fixed_str(5, sp.rest)
            IN IF ~p.ok THEN PFail
               ELSE LET l == SeparatedMore(<< p.val >>, p.rest)
                    IN POk(l.val, space0(l.rest).rest)

\* the parsers of parse_row in the order it runs them
AwyRowFields ==
    << "first_ident", "first_icao_region", "first_typ",
       "second_ident", "second_icao_region", "second_typ",
       "direction", "is_high", "base_fl", "top_fl", "names" >>

\* the i-th parser of parse_row run on the input s
ParseAwyField(i, s) ==
    CASE AwyRowFields[i] \in {"first_ident", "second_ident"} ->
           parse_fixed_str(5, s)
      [] AwyRowFields[i] \in {"first_icao_region", "second_icao_region"} ->
           parse_fixed_str(2, s)
      [] AwyRowFields[i] \in {"first_typ", "second_typ"} -> parse_typ(s)
      [] AwyRowFields[i] = "direction" -> parse_direction(s)
      [] AwyRowFields[i] = "is_high" -> parse_is_high(s)
      [] AwyRowFields[i] \in {"base_fl", "top_fl"} -> parse_fl(s)
      [] AwyRowFields[i] = "names" -> parse_names(s)

\* struct ParsedAwyEdge from the outputs of the eleven parsers
ParsedAwyEdge(vals) ==
    [first |-> NodeRef(vals[1], vals[2], vals[3]),
     second |-> NodeRef(vals[4], vals[5], vals[6]),
     direction |-> vals[7], is_high |-> vals[8],
     base_fl |-> vals[9], top_fl |-> vals[10], names |-> vals[11]]

\* parse_row.parse(&line): the next parser of parse_row; after the last
\* one, Parser::parse wants the whole line consumed
ParseRowStep ==
    /\ rp # None
    /\ rp.at = "fields"
    /\ LET i == Len(rp.vals) + 1
           r == ParseAwyField(i, rp.input)
       IN rp' = IF ~r.ok THEN [rp EXCEPT !.at = "failed"]
                ELSE [rp EXCEPT !.input = r.rest,
                                !.vals = Append(rp.vals, r.val),
                                !.at = IF i < Len(AwyRowFields) THEN "fields"
                                       ELSE IF r.rest = << >> THEN "parsed"
                                       ELSE "failed"]
    /\ UNCHANGED << pc, budget, header, entries, fixes, navaids, nodes, edges,
                    parsed_edge, result, cycles, accepted, ov, last_line, q >>

\* the rest of the closure given to try_for_each: the error of a line
\* parse_row turned down, or the row's references resolved and its edges
\* added
AwyRowClosure ==
    /\ rp # None
    /\ rp.at \in {"parsed", "failed"}
    /\ IF rp.at = "failed"
       THEN /\ result' = Err(Parse("airway row"))
            /\ UNCHANGED << edges, parsed_edge >>
       ELSE LET pe == ParsedAwyEdge(rp.vals)
                row_result == AwyRowResult(pe, nodes, edges)
            IN /\ result' = row_result.res
               /\ edges' = row_result.edges
               /\ parsed_edge' = pe
    /\ rp' = [rp EXCEPT !.at = "done"]
    /\ UNCHANGED << pc, budget, header, entries, fixes, navaids, nodes,
                    cycles, accepted, ov, last_line, q >>

\* the words of the lines of SpecAwyRow
ABEAM == << "A", "B", "E", "A", "M" >>
FIKLO == << "F", "I", "K", "L", "O" >>
ABEAMS == << "A", "B", "E", "A", "M", "S" >>
K2 == << "K", "2" >>
J1 == << "J", "1" >>
J101 == << "J", "1", "0", "1" >>

\* the line made of the words ws, the i-th behind the gap gaps[i]
RECURSIVE Join(_, _)
Join(ws, gaps) ==
    IF ws = << >> THEN << >>
    ELSE Head(gaps) \o Head(ws) \o Join(Tail(ws), Tail(gaps))

\* the lines given to parse_row: rows of earth_awy.dat as X-Plane writes
\* them and as parse_fixed_str wants them (a gap in front of the first
\* word), with one or two names behind a gap or a dash, and rows with a
\* field out of range
AwyRowLines ==
    {Join(<< first, K2, typ, FIKLO, K2, << "1", "1" >>, << dir >>, high,
             << "1", "8", "0" >>, << "4", "5", "0" >> >> \o names,
          << lead >> \o [i \in 1..9 |-> << " " >>] \o gaps) :
        lead \in {<< >>, << " " >>, << " ", " " >>},
        first \in {ABEAM, ABEAMS},
        typ \in {<< "1", "1" >>, << "9" >>},
        dir \in {"N", "X"},
        high \in {<< "2" >>, << "3" >>, << "2", "5", "6" >>},
        names \in {<< J1 \o << "-" >> \o J101 >>, << J1 >>, << J1, J101 >>,
                   << J1 \o << "-" >>, J101 >>},
        gaps \in {<< << " " >>, << " " >> >>, << << " ", " " >>, << " " >> >>}}

\* a graph containing the fixes ABEAM/K2 and FIKLO/K2
AwyRowNodes ==
    << FixEntry(Fix(ABEAM, K2, "ENRT", 0)), FixEntry(Fix(FIKLO, K2, "ENRT", 0)) >>

AwyRowRun(l) == [line |-> l, input |-> l, at |-> "fields", vals |-> << >>]

InitAwyRow ==
    /\ rp \in {AwyRowRun(l) : l \in AwyRowLines}
    /\ nodes = AwyRowNodes
    /\ edges = << >>
    /\ pc = Pc("earth_awy", "rows")
    /\ budget = 0
    /\ header = None
    /\ entries = << >>
    /\ fixes = None
    /\ navaids = None
    /\ parsed_edge = None
    /\ result = None
    /\ cycles = [f \in Files |-> 0]
    /\ accepted = {}
    /\ ov = NoOverlay
    /\ last_line = None
    /\ q = None

NextAwyRow ==
    \/ ParseRowStep
    \/ AwyRowClosure

SpecAwyRow == InitAwyRow /\ [][NextAwyRow]_vars

-----------------------------------------------------------------------------
(* fix::parse_wpt_flags (SpecFlags).  A u32 is kept as its two 16-bit       *)
(* halves, so that every 32-bit value has a representation; a byte is a     *)
(* number in 0..255.                                                         *)

\* the u32 whose high and low halves are hi and lo
U32(hi, lo) == [hi |-> hi, lo |-> lo]

\* the u32 of a number below 2^31
ToU32(n) == U32(n \div 65536, n % 65536)

\* the bytes of a u32, most significant first
to_be_bytes(x) == << x.hi \div 256, x.hi % 256, x.lo \div 256, x.lo % 256 >>

\* u32::to_le_bytes; bytes[i] of the code is the (i+1)-th element
to_le_bytes(x) == << x.lo % 256, x.lo \div 256, x.hi % 256, x.hi \div 256 >>

Letters ==
    << "A", "B", "C", "D", "E", "F", "G", "H", "I", "J", "K", "L", "M",
       "N", "O", "P", "Q", "R", "S", "T", "U", "V", "W", "X", "Y", "Z" >>

\* the ASCII codes of the capital letters and of the space
Ascii ==
    [c \in {Letters[i] : i \in 1..26} \cup {" "} |->
        IF c = " " THEN 32 ELSE 64 + (CHOOSE i \in 1..26 : Letters[i] = c)]

\* the byte literal b'c' of a capital letter or of the space
Byte(c) == Ascii[c]

\* a unit enumerator of FixType, FixFunction or FixProcedure
Enum(v) == [v |-> v]
\* an unlisted byte read as the space is
UnrecognizedAsUnspecified(byte) == [v |-> "Unspecified"]

\* the enumerator Unrecognized(u8) of the three
Unrecognized(byte) == [v |-> "Unrecognized", byte |-> byte]

\* `let typ = match bytes[0] { .. }`
wpt_typ(byte) ==
    CASE byte = Byte("A") -> Enum("ArcCenterFix")
      [] byte = Byte("C") -> Enum("NamedIntxAndRnav")
      [] byte = Byte("I") -> Enum("UnnamedChartedIntx")
      [] byte = Byte("M") -> Enum("MiddleMarker")
      [] byte = Byte("N") -> Enum("NdbAsWpt")
      [] byte = Byte("O") -> Enum("OuterMarker")
      [] byte = Byte("R") -> Enum("NamedIntx")
      [] byte = Byte("V") -> Enum("VfrWpt")
      [] byte = Byte("W") -> Enum("RnavWpt")
      [] byte = Byte(" ") -> Enum("Unspecified")
      [] OTHER -> Unrecognized(byte)

\* `let func = match bytes[1] { .. }`
wpt_func(byte, terminal) ==
    CASE byte = Byte("A") -> Enum("FinalAppFix")
      [] byte = Byte("B") -> Enum("InitialAndFinalAppFix")
      [] byte = Byte("C") -> Enum("FinalAppCrsFix")
      [] byte = Byte("D") -> Enum("IntermediateAppFix")
      [] byte = Byte("E") -> Enum("OffRouteIntxFAA")
      [] byte = Byte("F") -> Enum("OffRouteIntx")
      [] byte = Byte("I") -> Enum("InitialAppFix")
      [] byte = Byte("K") -> Enum("FinalAppCrsFixAtIAF")
      [] byte = Byte("L") -> Enum("FinalAppCrsFixAtIF")
      [] byte = Byte("M") -> Enum("MissedAppFix")
      [] byte = Byte("N") -> Enum("InitialAppFixAndMAF")
      [] byte = Byte("O") -> Enum("OceanicEntryExitWpt")
      [] byte = Byte("P") -> IF terminal THEN Enum("UnnamedStepdownFix")
                                         ELSE Enum("PitchAndCatchPoint")
      [] byte = Byte("S") -> IF terminal THEN Enum("NamedStepdownFix")
                                         ELSE Enum("AacaaAndSuaWpt")
      [] byte = Byte("U") -> Enum("FirUirCtrlIntx")
      [] byte = Byte("V") -> Enum("LatLonFullDegIntx")
      [] byte = Byte("W") -> Enum("LatLonHalfDegIntx")
      [] byte = Byte(" ") -> Enum("Unspecified")
      [] OTHER -> Unrecognized(byte)

\* `let proc = match bytes[2] { .. }`
wpt_proc(byte) ==
    CASE byte = Byte("D") -> Enum("SID")
      [] byte = Byte("E") -> Enum("STAR")
      [] byte = Byte("F") -> Enum("Approach")
      [] byte = Byte("Z") -> Enum("Multiple")
      [] byte = Byte(" ") -> Enum("Unspecified")
      [] OTHER -> Unrecognized(byte)

parse_wpt_flags(flags, terminal) ==
    LET bytes == to_le_bytes(flags)
    IN [typ |-> wpt_typ(bytes[1]), func |-> wpt_func(bytes[2], terminal),
        proc |-> wpt_proc(bytes[3])]

\* the result of a function that is no Result
Value(v) == [t |-> "Value", val |-> v]

\* fix::parse_row, `let (typ, func, proc) = parse_wpt_flags(funny_flags,
\* terminal_area != "ENRT")`
ParseWptFlags ==
    /\ rp # None
    /\ rp.at = "flags"
    /\ result' = Value(parse_wpt_flags(rp.funny_flags,
                                       rp.terminal_area # "ENRT"))
    /\ rp' = [rp EXCEPT !.at = "done"]
    /\ UNCHANGED << pc, budget, header, entries, fixes, navaids, nodes, edges,
                    parsed_edge, cycles, accepted, ov, last_line, q >>

\* the bytes the flags of SpecFlags are made of: every letter and the
\* space, and bytes that are neither
FlagBytes ==
    {Byte(Letters[i]) : i \in 1..26} \cup {Byte(" "), 0, 64, 176, 208, 255}

\* the bytes two of the three low bytes of the flags of SpecFlags are
\* drawn from, the third being any of FlagBytes
FlagCommonBytes == {Byte(" "), Byte("P"), 64, 176, 208, 255}

\* the three low bytes of the flags of SpecFlags
FlagLowBytes ==
    {b \in FlagBytes \X FlagBytes \X FlagBytes :
        \E i \in 1..3 : \A j \in (1..3) \ {i} : b[j] \in FlagCommonBytes}

\* the most significant byte of the flags of SpecFlags
FlagTopBytes == {0, 255}

FlagsRun(flags, terminal_area) ==
    [funny_flags |-> flags, terminal_area |-> terminal_area, at |-> "flags"]

InitFlags ==
    /\ \E b \in FlagLowBytes, b3 \in FlagTopBytes,
          terminal_area \in {"ENRT", "KSFO"} :
          rp = FlagsRun(U32(256 * b3 + b[3], 256 * b[2] + b[1]),
                        terminal_area)
    /\ nodes = << >>
    /\ edges = << >>
    /\ pc = Pc("earth_fix", "rows")
    /\ budget = 0
    /\ header = None
    /\ entries = << >>
    /\ fixes = None
    /\ navaids = None
    /\ parsed_edge = None
    /\ result = None
    /\ cycles = [f \in Files |-> 0]
    /\ accepted = {}
    /\ ov = NoOverlay
    /\ last_line = None
    /\ q = None

NextFlags ==
    \/ ParseWptFlags

SpecFlags == InitFlags /\ [][NextFlags]_vars

-----------------------------------------------------------------------------
(* The course split of nav::parse_loc (SpecLoc).  A rust_decimal Decimal is *)
(* a signed integer m and a scale, of value m / 10^scale; its arithmetic    *)
(* is exact, division stopping when nothing is left or at the greatest      *)
(* scale.  The narrowing of the two courses to f32 is left out.             *)

\* the greatest scale a quotient is carried to
MaxDecScale == 3
\* the greatest scale of the numbers of SpecLoc
MaxFunnyScale == 2

Dec(m, scale) == [m |-> m, scale |-> scale]

\* dec!(360)
Dec360 == Dec(360, 0)

\* the same value at the scale s >= d.scale
Rescale(d, s) == Dec(d.m * 10 ^ (s - d.scale), s)

\* the greater scale of two numbers
CommonScale(a, b) == IF a.scale >= b.scale THEN a.scale ELSE b.scale

\* the remainder of Rust's % on integers: it takes the sign of x
TruncRem(x, y) == IF x >= 0 THEN x % y ELSE -((-x) % y)

\* the quotient of Rust's / on integers: it rounds towards zero
TruncDiv(x, y) == IF x >= 0 THEN x \div y ELSE -((-x) \div y)

\* Decimal % Decimal
DecRem(a, b) ==
    LET s == CommonScale(a, b)
    IN Dec(TruncRem(Rescale(a, s).m, Rescale(b, s).m), s)

\* Decimal - Decimal
DecSub(a, b) ==
    LET s == CommonScale(a, b)
    IN Dec(Rescale(a, s).m - Rescale(b, s).m, s)

\* the long division of Decimal / Decimal: the quotient so far at
\* `scale`, r left over the divisor y
RECURSIVE DivDigits(_, _, _, _)
DivDigits(quot, r, y, scale) ==
    IF r = 0 \/ scale = MaxDecScale THEN Dec(quot, scale)
    ELSE DivDigits(10 * quot + TruncDiv(10 * r, y), TruncRem(10 * r, y), y,
                   scale + 1)

\* Decimal / Decimal
DecDiv(a, b) ==
    LET s == CommonScale(a, b)
        x == Rescale(a, s).m
        y == Rescale(b, s).m
    IN DivDigits(TruncDiv(x, y), TruncRem(x, y), y, 0)

\* a split that divides the number as it is
LocCourseUnsubtracted(funny_number) ==
    [crs_true |-> DecRem(funny_number, Dec360),
     crs_mag |-> DecDiv(funny_number, Dec360)]

\* `let crs_true = funny_number % dec!(360)` and `(funny_number - crs_true)
\* / dec!(360)`
LocCourse(funny_number) ==
    LET crs_true == DecRem(funny_number, Dec360)
    IN [crs_true |-> crs_true,
        crs_mag |-> DecDiv(DecSub(funny_number, crs_true), Dec360)]

\* nav::parse_loc from the funny number to the two courses
ParseLocCourse ==
    /\ rp # None
    /\ rp.at = "course"
    /\ result' = Value(LocCourse(rp.funny_number))
    /\ rp' = [rp EXCEPT !.at = "done"]
    /\ UNCHANGED << pc, budget, header, entries, fixes, navaids, nodes, edges,
                    parsed_edge, cycles, accepted, ov, last_line, q >>

\* the digits of the numbers of SpecLoc, the sign and the point left out
FunnyMantissas ==
    (0..3) \cup (357..363) \cup (717..723) \cup (35997..36003)
    \cup (129597..129603) \cup {65715, 6571593, 12959999}

\* the numbers the localizer rows of SpecLoc hold
FunnyNumbers ==
    {Dec(sign * m, scale) : sign \in {1, -1}, m \in FunnyMantissas,
                            scale \in 0..MaxFunnyScale}

LocRun(funny_number) == [funny_number |-> funny_number, at |-> "course"]

InitLoc ==
    /\ rp \in {LocRun(n) : n \in FunnyNumbers}
    /\ nodes = << >>
    /\ edges = << >>
    /\ pc = Pc("earth_nav", "rows")
    /\ budget = 0
    /\ header = None
    /\ entries = << >>
    /\ fixes = None
    /\ navaids = None
    /\ parsed_edge = None
    /\ result = None
    /\ cycles = [f \in Files |-> 0]
    /\ accepted = {}
    /\ ov = NoOverlay
    /\ last_line = None
    /\ q = None

NextLoc ==
    \/ ParseLocCourse

SpecLoc == InitLoc /\ [][NextLoc]_vars

-----------------------------------------------------------------------------
(* Properties of the build (Spec) *)

BuildEnded == pc.at \in {"failed", "aborted"}

\* the four earth files were accepted by their parsers and share one cycle
\* (so their references resolved), and no user file was turned down
WellFormedFolder ==
    /\ EarthFiles \subseteq accepted
    /\ \A f \in EarthFiles : cycles[f] = cycles["earth_fix"]
    /\ \A f \in UserFiles : cycles[f] # 0 => f \in accepted

\* C1: for a folder whose four earth files are well-formed, share one cycle
\* and hold only resolvable references, build_data_from_folder ends by
\* returning Ok (it neither returns an error nor aborts).
C1_WellFormedFolderReturnsOk ==
    (BuildEnded /\ WellFormedFolder) => result.t = "Ok"

\* C2: once the builder is past its last cycle check, every file it parsed
\* has the cycle of earth_fix.dat in its header (so a user file of another
\* cycle would have made the build fail).
C2_ParsedFilesShareCycle ==
    pc.file = "todo" =>
        \A f \in Files : cycles[f] # 0 => cycles[f] = cycles["earth_fix"]

\* C3: when the parser of earth_nav.dat, earth_awy.dat or earth_hold.dat
\* accepted the file and its header cycle is not that of earth_fix.dat, the
\* build has failed at that file with CycleMismatch, established_cycle the
\* cycle of earth_fix.dat and new_cycle that of the file.
C3_CycleMismatchReported ==
    \A f \in {"earth_nav", "earth_awy", "earth_hold"} :
        (f \in accepted /\ cycles[f] # cycles["earth_fix"]) =>
            /\ pc = Pc(f, "failed")
            /\ result.t = "Err"
            /\ result.err.e = "CycleMismatch"
            /\ result.err.established_cycle = cycles["earth_fix"]
            /\ result.err.new_cycle = cycles[f]

\* the spec's scenario: fix 2401, nav 2402
C3_Witness ==
    /\ pc = Pc("earth_nav", "failed")
    /\ "earth_nav" \in accepted
    /\ cycles["earth_fix"] = 2401
    /\ cycles["earth_nav"] = 2402
    /\ result = Err(CycleMismatch(2401, 2402))

\* the builder is at the file f, whose header holds another cycle than the
\* header of earth_fix.dat
AtMismatchingFile(f) ==
    /\ pc.file = f
    /\ cycles[f] # 0
    /\ cycles[f] # cycles["earth_fix"]

\* the graph holds an edge that came of the file f
EdgeOfFile(f) ==
    \E i \in 1..Len(edges) :
        edges[i].w.t = (IF f = "earth_awy" THEN "Airway" ELSE "Hold")

\* C24: the builder compares the header cycle of earth_nav.dat,
\* earth_awy.dat and earth_hold.dat with the fix cycle before any row of the
\* file: at a file of another cycle no row is taken in, the build does not
\* end in the error of a malformed row or of a reference to a nonexistent
\* waypoint, and no edge of an airway or hold file of another cycle is in
\* the graph.
C24_CycleCheckedBeforeRows ==
    \A f \in {"earth_nav", "earth_awy", "earth_hold"} :
        AtMismatchingFile(f) =>
            /\ result.t = "Err" =>
                  result.err.e \notin {"Parse", "ReferencedNonexistentWpt"}
            /\ entries = << >>
            /\ f \in {"earth_awy", "earth_hold"} => ~EdgeOfFile(f)

\* C27: the graph the builder makes holds the merged fixes in list order
\* at the indices 0..F-1 and the merged navaids in list order at F..F+N-1
\* (here 1..F and F+1..F+N), and the airway and hold parsers leave the
\* vertices as they are: they add no vertex, drop none and change none.
C27_VertexLayoutStable ==
    [][/\ (pc = Pc("graph", "open") /\ pc' # pc) =>
             LET F == Len(fixes.entries)
                 N == Len(navaids.entries)
             IN /\ Len(nodes') = F + N
                /\ \A i \in 1..F : nodes'[i] = FixEntry(fixes.entries[i])
                /\ \A i \in 1..N :
                      nodes'[F + i] = NavaidEntry(navaids.entries[i])
       /\ pc.file \in {"earth_awy", "earth_hold", "todo"} => nodes' = nodes
      ]_vars

\* a graph of a fix and a navaid to which a row of the airway or the hold
\* file gave an edge
C27_Witness ==
    /\ pc.file \in {"earth_awy", "earth_hold"}
    /\ Len(nodes) = 2
    /\ nodes[1].t = "Fix"
    /\ nodes[2].t = "Navaid"
    /\ Len(edges) >= 1

-----------------------------------------------------------------------------
(* Properties of the overlays (SpecOverlay) *)

\* the identity tuples as the claims state them
FixIdentity(f) == << f.ident, f.icao_region, f.terminal_region >>
NavaidIdentity(n) == << n.ident, n.icao_region, n.type_data.kind >>
OvIdentity(x) == IF ov.what = "fix" THEN FixIdentity(x) ELSE NavaidIdentity(x)

\* the places of list that hold the identity id
PlacesOf(list, id) == {j \in 1..Len(list) : OvIdentity(list[j]) = id}

\* the first overlay of the user list is over
OverlaidOnce == ov.what # "none" /\ ov.pass = 1 /\ ov.i > Len(ov.user)
\* and so is the second
OverlaidTwice == ov.what # "none" /\ ov.pass = 2 /\ ov.i > Len(ov.user)

\* the last user entry with the identity id
LastUser(id) ==
    ov.user[CHOOSE k \in PlacesOf(ov.user, id) :
                \A m \in PlacesOf(ov.user, id) : m <= k]

\* the vertices the builder makes of the merged fixes
MergedVertices == GraphNodes(ov.list, << >>)

\* C4 as stated: after the fix overlay, a user fix with the identity of a
\* base fix is the one entry (vertex) with that identity, at the base
\* entry's place; a user fix with no base fix of its identity is appended.
C4_UserFixReplacesByIdentity ==
    (OverlaidOnce /\ ov.what = "fix") =>
        \A k \in 1..Len(ov.user) :
            LET u == ov.user[k]
                id == FixIdentity(u)
            IN IF PlacesOf(ov.base, id) # {}
               THEN /\ Cardinality(PlacesOf(ov.list, id)) = 1
                    /\ \E j \in PlacesOf(ov.base, id) :
                          MergedVertices[j] = FixEntry(u)
               ELSE \E j \in (Len(ov.base) + 1)..Len(ov.list) :
                          MergedVertices[j] = FixEntry(u)

\* C4 amended: after the fix overlay, for a user fix whose identity some
\* base fix has, the merged list holds that identity as often as the base
\* list did (once when the base identities are distinct), the first such
\* place carries the last user fix of that identity and every other such
\* place its base entry; for a user fix whose identity no base fix has, the
\* merged list holds the identity once, past the base entries, carrying the
\* last user fix of that identity.
C4_UserFixReplacesFirstMatch ==
    (OverlaidOnce /\ ov.what = "fix") =>
        /\ Len(ov.list) >= Len(ov.base)
        /\ \A k \in 1..Len(ov.user) :
            LET id == FixIdentity(ov.user[k])
                inBase == PlacesOf(ov.base, id)
                inList == PlacesOf(ov.list, id)
            IN IF inBase # {}
               THEN LET p == CHOOSE j \in inBase : \A m \in inBase : j <= m
                    IN /\ inList = inBase
                       /\ MergedVertices[p] = FixEntry(LastUser(id))
                       /\ \A j \in inBase \ {p} : ov.list[j] = ov.base[j]
               ELSE /\ Cardinality(inList) = 1
                    /\ \A j \in inList :
                          /\ j > Len(ov.base)
                          /\ MergedVertices[j] = FixEntry(LastUser(id))

\* the spec's scenario: base FOO/K2/ENRT, the user file the same identity
\* with other data; one FOO vertex, bearing the user's data
C4_Witness ==
    /\ OverlaidOnce
    /\ ov.base = << Fix("FOO", "K2", "ENRT", 1) >>
    /\ ov.user = << Fix("FOO", "K2", "ENRT", 2) >>
    /\ MergedVertices = << FixEntry(Fix("FOO", "K2", "ENRT", 2)) >>

\* no two places of list hold one identity
DistinctIdentities(list) ==
    \A i, j \in 1..Len(list) :
        OvIdentity(list[i]) = OvIdentity(list[j]) => i = j

\* C5: if no two base entries share an identity tuple, then no two entries
\* of the list share one while and after the user list is overlaid, for
\* fixes (ident, icao_region, terminal_region) and for navaids (ident,
\* icao_region, variant kind).
C5_OverlayKeepsIdentitiesDistinct ==
    (ov.what # "none" /\ DistinctIdentities(ov.base)) =>
        DistinctIdentities(ov.list)

\* a user list that repeats an identity the base list lacks
C5_Witness ==
    /\ OverlaidOnce
    /\ DistinctIdentities(ov.base)
    /\ Len(ov.base) = 1
    /\ Len(ov.user) = 2
    /\ OvIdentity(ov.user[1]) = OvIdentity(ov.user[2])
    /\ ov.user[1] # ov.user[2]
    /\ OvIdentity(ov.user[1]) # OvIdentity(ov.base[1])
    /\ Len(ov.list) = 2

\* C6: overlaying the same user list a second time leaves the merged list
\* as the first overlay made it (same entries, same order, same length).
C6_OverlayIdempotent ==
    OverlaidTwice => ov.list = ov.once

\* a second overlay of a user list that both replaced and appended
C6_Witness ==
    /\ OverlaidTwice
    /\ Len(ov.user) = 2
    /\ Len(ov.base) = 2
    /\ Len(ov.once) = 3
    /\ ov.once[1] # ov.base[1]
    /\ ov.list = ov.once

\* C7: a step of the navaid overlay changes a place of the list only when
\* that place has the user navaid's ident, icao_region and variant kind,
\* and a user navaid that no entry equals in all three (whatever entries
\* share its ident and icao_region under another kind) is appended, the
\* list before it unchanged.
C7_NavaidIdentityIncludesKind ==
    [][(ov.what = "navaid" /\ ov.i <= Len(ov.user) /\ ov'.i = ov.i + 1) =>
          LET u == ov.user[ov.i]
              same(n) == /\ n.ident = u.ident
                         /\ n.icao_region = u.icao_region
                         /\ n.type_data.kind = u.type_data.kind
          IN /\ Len(ov'.list) >= Len(ov.list)
             /\ \A j \in 1..Len(ov.list) :
                   ov'.list[j] # ov.list[j] =>
                       (same(ov.list[j]) /\ ov'.list[j] = u)
             /\ (\A j \in 1..Len(ov.list) : ~same(ov.list[j])) =>
                   ov'.list = Append(ov.list, u)
      ]_vars

\* user NDB against base VOR of the same ident and region: appended
C7_Witness ==
    /\ OverlaidOnce
    /\ ov.base = << Navaid("FOO", "K2", Vor, 1) >>
    /\ ov.user = << Navaid("FOO", "K2", Ndb("ENRT"), 1) >>
    /\ ov.list = << Navaid("FOO", "K2", Vor, 1),
                    Navaid("FOO", "K2", Ndb("ENRT"), 1) >>

-----------------------------------------------------------------------------
(* Properties of the airway and hold parsers (SpecGraph) *)

IsVertex(i) == i \in 1..Len(nodes)

NoDanglingEdge(es) ==
    \A i \in 1..Len(es) : IsVertex(es[i].from) /\ IsVertex(es[i].to)

FailedWith(r, e) == r.t = "Err" /\ r.err.e = e

\* C8: in every state the airway and hold parsers reach, both ends of
\* every edge are vertices of the graph, and a step that ends in
\* ReferencedNonexistentWpt leaves the edges as they were.
C8_NoDanglingEdges ==
    [][/\ NoDanglingEdge(edges')
       /\ FailedWith(result', "ReferencedNonexistentWpt") => edges' = edges
      ]_vars

\* an airway row between two different vertices has added its edges
C8_Witness ==
    /\ pc = Pc("earth_awy", "rows")
    /\ Len(nodes) = 2
    /\ Len(edges) = 2
    /\ edges[1].from = 1 /\ edges[1].to = 2
    /\ edges[2].from = 2 /\ edges[2].to = 1

\* C9: a ReferencedNonexistentWpt carries the ident of a reference that
\* did not resolve: for an airway row the ident of the first waypoint when
\* that one is missing and the second exists, of the second when the second
\* is missing and the first exists, of either when both are missing; for a
\* hold row the ident of the hold point.
C9_NonexistentWptNamesTheReference ==
    FailedWith(result, "ReferencedNonexistentWpt") =>
        IF pc.file = "earth_hold"
        THEN result.err.wpt = parsed_edge.hold_point.ident
        ELSE result.err.wpt \in
                {r.ident : r \in {x \in {parsed_edge.first, parsed_edge.second} :
                                    FindWpt(x, nodes) = 0}}

\* the edges a step added
Added == SubSeq(edges', Len(edges) + 1, Len(edges'))

\* how many of the edges es run from a to b under the airway name n
CountEdges(es, a, b, n) ==
    Cardinality({i \in 1..Len(es) :
                    es[i].from = a /\ es[i].to = b /\ es[i].w.name = n})

\* C10: an airway row with resolved ends a, b and k names adds k edges
\* a->b for F, k edges b->a for B and 2k edges for N, one a->b and one b->a
\* per name, each an Airway edge with the row's base_fl, top_fl, is_high and
\* one of its names; another direction fails with InvalidAwyDir carrying it
\* and adds no edge.
C10_AwyDirection ==
    [][/\ (pc = Pc("earth_awy", "rows") /\ pc' = pc /\ budget' = budget - 1) =>
            LET r == parsed_edge'
                a == FindWpt(r.first, nodes)
                b == FindWpt(r.second, nodes)
                k == Len(r.names)
                both == IF a = b THEN 2 ELSE 1
            IN /\ IsVertex(a) /\ IsVertex(b)
               /\ SubSeq(edges', 1, Len(edges)) = edges
               /\ r.direction \in {"F", "B", "N"}
               /\ Len(Added) = IF r.direction = "N" THEN 2 * k ELSE k
               /\ \A i \in 1..Len(Added) :
                     /\ Added[i].w = [t |-> "Airway", base_fl |-> r.base_fl,
                                      top_fl |-> r.top_fl, is_high |-> r.is_high,
                                      name |-> Added[i].w.name]
                     /\ \E n \in 1..k : Added[i].w.name = r.names[n]
                     /\ r.direction = "F" => (Added[i].from = a /\ Added[i].to = b)
                     /\ r.direction = "B" => (Added[i].from = b /\ Added[i].to = a)
               /\ r.direction = "F" =>
                     \A n \in 1..k : CountEdges(Added, a, b, r.names[n]) = 1
               /\ r.direction = "B" =>
                     \A n \in 1..k : CountEdges(Added, b, a, r.names[n]) = 1
               /\ r.direction = "N" =>
                     \A n \in 1..k :
                        /\ CountEdges(Added, a, b, r.names[n]) = both
                        /\ CountEdges(Added, b, a, r.names[n]) = both
       /\ (pc = Pc("earth_awy", "rows")
           /\ FailedWith(result', "InvalidAwyDir")) =>
            /\ parsed_edge'.direction \notin {"F", "B", "N"}
            /\ result'.err.dir = parsed_edge'.direction
            /\ edges' = edges
      ]_vars

\* a row of direction N with two names between two vertices: four edges
C10_Witness ==
    /\ pc = Pc("earth_awy", "rows")
    /\ parsed_edge # None
    /\ parsed_edge.direction = "N"
    /\ Len(parsed_edge.names) = 2
    /\ Len(edges) = 4
    /\ edges[1].from # edges[1].to

\* a step of the hold parser that handed a row to the closure
HoldRowHandled ==
    /\ pc = Pc("earth_hold", "rows")
    /\ last_line'.k = "row"
    /\ parsed_edge' = last_line'.row

\* C12: a hold row whose hold point resolves and whose direction is L or R
\* is stored with leg length Minutes(m) when d = 0 (m = 0 included), with
\* DME(d) when m = 0 and d # 0, and fails with ConflictingHoldLegLengths
\* carrying m and d, no edge added, when neither is 0; that error never
\* comes of a row with m = 0 or d = 0.
C12_HoldLegLengthOneDimension ==
    [][HoldRowHandled =>
          LET r == parsed_edge'
              m == r.leg_time_min
              d == r.leg_length_nm
          IN /\ (FindHoldPoint(r, nodes) # 0 /\ r.direction \in {"L", "R"}) =>
                   IF m # 0 /\ d # 0
                   THEN /\ FailedWith(result', "ConflictingHoldLegLengths")
                        /\ result'.err.minutes = m
                        /\ result'.err.dme = d
                        /\ edges' = edges
                   ELSE /\ result' = result
                        /\ Len(edges') = Len(edges) + 1
                        /\ SubSeq(edges', 1, Len(edges)) = edges
                        /\ edges'[Len(edges')].w.t = "Hold"
                        /\ edges'[Len(edges')].w.leg_length =
                              IF d = 0 THEN [u |-> "Minutes", v |-> m]
                              ELSE [u |-> "DME", v |-> d]
             /\ FailedWith(result', "ConflictingHoldLegLengths") =>
                   (m # 0 /\ d # 0 /\ edges' = edges)
      ]_vars

\* a row of 1 minute and 5 nm on a hold point of the graph was turned down
C12_Witness ==
    /\ pc = Pc("earth_hold", "failed")
    /\ result = Err(ConflictingHoldLegLengths(1, 5))
    /\ parsed_edge.leg_time_min = 1
    /\ parsed_edge.leg_length_nm = 5
    /\ FindHoldPoint(parsed_edge, nodes) # 0
    /\ edges = << >>

-----------------------------------------------------------------------------
(* Properties of the row loops of the four file parsers (Spec) *)

InRowLoop == pc.at = "rows" /\ pc.file \in Files

\* C13: in the row loop of the fix, navaid, airway and hold parser, the
\* step in which the parser accepts its file consumes the line `99`; a line
\* the loop passes over without parsing it as a row is the empty line; and
\* every other line after which the loop goes on was parsed as a row (added
\* to the entries, or handed to the closure of the airway / hold parser).
C13_AcceptedFileLines ==
    [][InRowLoop =>
          /\ (pc.file \notin accepted /\ pc.file \in accepted') =>
                last_line' = Text("99")
          /\ pc' = pc =>
                IF last_line' = Text("")
                THEN /\ entries' = entries
                     /\ edges' = edges
                     /\ parsed_edge' = parsed_edge
                ELSE /\ last_line'.k = "row"
                     /\ IF pc.file \in {"earth_awy", "earth_hold"}
                        THEN parsed_edge' = last_line'.row
                        ELSE entries' = Append(entries, last_line'.row)
      ]_vars

\* earth_fix.dat was accepted with two rows, the last line consumed is `99`
C13_Witness ==
    /\ pc = Pc("user_fix", "open")
    /\ "earth_fix" \in accepted
    /\ last_line = Text("99")
    /\ Len(fixes.entries) = 2

\* C14: a parser in its row loop has not consumed a line `99` yet; the
\* step that consumes the first `99` makes the parser return Ok (the file
\* is accepted and the row loop left, so no later line of the file is read,
\* whatever it holds); and the end of the input met in the row loop, that
\* is without a `99`, is answered with MissingLine or BadLastLine.
C14_SentinelEndsTheFile ==
    [][InRowLoop =>
          /\ last_line # Text("99")
          /\ last_line' = Text("99") =>
                /\ accepted' = accepted \cup {pc.file}
                /\ pc' # pc
                /\ pc'.at # "rows"
                /\ (result'.t = "Err" => result'.err.e = "CycleMismatch")
          /\ last_line'.k = "eof" =>
                /\ pc' = Pc(pc.file, "failed")
                /\ \/ FailedWith(result', "MissingLine")
                   \/ FailedWith(result', "BadLastLine")
      ]_vars

\* earth_nav.dat ended after a valid header without a `99`
C14_Witness ==
    /\ pc = Pc("earth_nav", "failed")
    /\ last_line = Eof
    /\ cycles["earth_nav"] # 0
    /\ result = Err([e |-> "MissingLine"])

\* the versions each format is said to accept
AcceptedVersions(file) ==
    CASE file \in {"earth_fix", "user_fix"} -> {"XP1101", "XP1200"}
      [] file \in {"earth_nav", "user_nav"} -> {"XP1150", "XP1200"}
      [] file = "earth_awy" -> {"XP1100"}
      [] file = "earth_hold" -> {"XP1140"}

\* C15: a parser reaches its row loop only with a header whose version is
\* in the accept list of its format (fix: 1101, 1200; navaid: 1150, 1200;
\* hold: 1140; airway: 1100), and a header turned down for its version is
\* answered with UnsupportedVersion carrying that version.
C15_VersionGateBeforeRows ==
    /\ InRowLoop => header.version \in AcceptedVersions(pc.file)
    /\ FailedWith(result, "UnsupportedVersion") =>
          result.err.version \notin AcceptedVersions(pc.file)

-----------------------------------------------------------------------------
(* Properties of the queries (SpecQuery) *)

QueryDone(op) == q # None /\ q.op = op /\ q.at = "done"

\* the ident of the vertex at index i
IdentAt(i) ==
    IF nodes[i].t = "Fix" THEN nodes[i].fix.ident ELSE nodes[i].navaid.ident

\* C16: find_nav_entry(x) returns exactly the vertices whose ident is x:
\* every pair returned holds an index of the graph, the vertex at that
\* index, and that vertex is named x; every vertex named x is returned
\* once; nothing is returned when no vertex is named x.
C16_FindNavEntryExact ==
    QueryDone("find_nav_entry") =>
        /\ \A k \in 1..Len(result.val) :
              /\ result.val[k][1] \in 1..Len(nodes)
              /\ result.val[k][2] = nodes[result.val[k][1]]
              /\ IdentAt(result.val[k][1]) = q.ident
        /\ \A i \in 1..Len(nodes) :
              IdentAt(i) = q.ident =>
                  Cardinality({k \in 1..Len(result.val) : result.val[k][1] = i}) = 1
        /\ (\A i \in 1..Len(nodes) : IdentAt(i) # q.ident) => result.val = << >>

\* ABEAM names a fix and a navaid: both are returned
C16_Witness ==
    /\ QueryDone("find_nav_entry")
    /\ q.ident = "ABEAM"
    /\ Len(result.val) = 2
    /\ result.val[1][2].t = "Fix"
    /\ result.val[2][2].t = "Navaid"

\* the edges of the airway awy, as indices into edges
AwyEdgesOf(awy) ==
    {i \in 1..Len(edges) : edges[i].w.t = "Airway" /\ edges[i].w.name = awy}

\* airway_find turned the start vertex down
StartNotOnAirway ==
    /\ FailedWith(result, "NotOnAirway")
    /\ result.err.start = TRUE

\* C17: for a valid start, airway_find answers NotOnAirway with start = true
\* exactly when no edge of the airway awy enters or leaves start (so a start
\* with an entering edge alone passes the check).
C17_StartCheckIncident ==
    (QueryDone("airway_find") /\ q.start \in 1..Len(nodes)) =>
        (StartNotOnAirway <=>
            \A i \in AwyEdgesOf(q.awy) :
                edges[i].from # q.start /\ edges[i].to # q.start)

\* the vertices a directed path of edges of the airway awy leads to from
\* the vertices S (S included: paths of length zero)
RECURSIVE DirectedReach(_, _)
DirectedReach(S, awy) ==
    LET more == S \cup {edges[i].to : i \in {j \in AwyEdgesOf(awy) :
                                                edges[j].from \in S}}
    IN IF more = S THEN S ELSE DirectedReach(more, awy)

NoIndexTwice(res) ==
    \A j, k \in 1..Len(res) : res[j][1] = res[k][1] => j = k

\* C19: every call of airway_find returns (graphs with segments in both
\* directions, parallel edges and hold loops included), and at no time does
\* the traversal hold a vertex index twice among the pairs it collected.
C19_AirwayFindTerminates ==
    /\ <>(q.at = "done")
    /\ [](NoIndexTwice(q.res))

\* a traversal round a segment of direction N has returned
C19_Witness ==
    /\ QueryDone("airway_find")
    /\ result.t = "Ok"
    /\ Len(edges) = 2
    /\ edges[1].from = 1 /\ edges[1].to = 2 /\ edges[1].w.name = "J1"
    /\ edges[2].from = 2 /\ edges[2].to = 1 /\ edges[2].w.name = "J1"
    /\ q.finished = {1, 2}

\* the vertices a chain of edges of the airway awy, each taken in either
\* direction, joins to the vertices S
RECURSIVE ChainReach(_, _)
ChainReach(S, awy) ==
    LET more == S \cup {edges[i].to : i \in {j \in AwyEdgesOf(awy) :
                                                edges[j].from \in S}}
                  \cup {edges[i].from : i \in {j \in AwyEdgesOf(awy) :
                                                  edges[j].to \in S}}
    IN IF more = S THEN S ELSE ChainReach(more, awy)

\* C20: airway_find(start, awy, end) returns every vertex other than start
\* that is named end and that a chain of edges of the airway awy joins to
\* start, whichever way the edges of the chain point.
C20_FollowsEitherDirection ==
    (QueryDone("airway_find") /\ q.start \in 1..Len(nodes)) =>
        \A v \in ChainReach({q.start}, q.awy) \ {q.start} :
            IdentAt(v) = q.end =>
                /\ result.t = "Ok"
                /\ \E k \in 1..Len(result.val) : result.val[k][1] = v

-----------------------------------------------------------------------------
(* Properties of the airway row parser (SpecAwyRow) *)

\* the row `ABEAM K2 11 FIKLO K2 11 N 2 180 450 J1-J101`
AbeamFikloRow ==
    Join(<< ABEAM, K2, << "1", "1" >>, FIKLO, K2, << "1", "1" >>, << "N" >>,
            << "2" >>, << "1", "8", "0" >>, << "4", "5", "0" >>,
            J1 \o << "-" >> \o J101 >>,
         << << >> >> \o [i \in 1..10 |-> << " " >>])

\* C11: the airway row `ABEAM K2 11 FIKLO K2 11 N 2 180 450 J1-J101` is
\* accepted as first = (ABEAM, K2, Fix), second = (FIKLO, K2, Fix),
\* direction N, is_high = true, base_fl = 180, top_fl = 450 and the names J1
\* and J101, and against a graph holding the fixes ABEAM/K2 and FIKLO/K2 it
\* adds four directed edges.
C11_AbeamFikloRowAccepted ==
    (rp # None /\ rp.line = AbeamFikloRow /\ rp.at = "done") =>
        /\ result = Ok("row")
        /\ parsed_edge =
             [first |-> NodeRef(ABEAM, K2, "Fix"),
              second |-> NodeRef(FIKLO, K2, "Fix"),
              direction |-> "N", is_high |-> TRUE,
              base_fl |-> 180, top_fl |-> 450, names |-> << J1, J101 >>]
        /\ Len(edges) = 4

-----------------------------------------------------------------------------
(* Properties of the fix flags (SpecFlags) *)

\* parse_wpt_flags has answered
FlagsDecoded == rp # None /\ rp.at = "done" /\ result.t = "Value"

\* the letters of byte 0 and the FixType of each
FixTypeOf ==
    [c \in {"A", "C", "I", "M", "N", "O", "R", "V", "W", " "} |->
        CASE c = "A" -> "ArcCenterFix" [] c = "C" -> "NamedIntxAndRnav"
          [] c = "I" -> "UnnamedChartedIntx" [] c = "M" -> "MiddleMarker"
          [] c = "N" -> "NdbAsWpt" [] c = "O" -> "OuterMarker"
          [] c = "R" -> "NamedIntx" [] c = "V" -> "VfrWpt"
          [] c = "W" -> "RnavWpt" [] c = " " -> "Unspecified"]

\* the letters of byte 1 and the FixFunction of each, in a terminal region
\* (terminal = TRUE) or en route
FixFunctionOf(terminal) ==
    [c \in {"A", "B", "C", "D", "E", "F", "I", "K", "L", "M", "N", "O", "P",
            "S", "U", "V", "W", " "} |->
        CASE c = "A" -> "FinalAppFix" [] c = "B" -> "InitialAndFinalAppFix"
          [] c = "C" -> "FinalAppCrsFix" [] c = "D" -> "IntermediateAppFix"
          [] c = "E" -> "OffRouteIntxFAA" [] c = "F" -> "OffRouteIntx"
          [] c = "I" -> "InitialAppFix" [] c = "K" -> "FinalAppCrsFixAtIAF"
          [] c = "L" -> "FinalAppCrsFixAtIF" [] c = "M" -> "MissedAppFix"
          [] c = "N" -> "InitialAppFixAndMAF"
          [] c = "O" -> "OceanicEntryExitWpt"
          [] c = "P" -> (IF terminal THEN "UnnamedStepdownFix"
                                     ELSE "PitchAndCatchPoint")
          [] c = "S" -> (IF terminal THEN "NamedStepdownFix"
                                     ELSE "AacaaAndSuaWpt")
          [] c = "U" -> "FirUirCtrlIntx" [] c = "V" -> "LatLonFullDegIntx"
          [] c = "W" -> "LatLonHalfDegIntx" [] c = " " -> "Unspecified"]

\* the letters of byte 2 and the FixProcedure of each
FixProcedureOf ==
    [c \in {"D", "E", "F", "Z", " "} |->
        CASE c = "D" -> "SID" [] c = "E" -> "STAR" [] c = "F" -> "Approach"
          [] c = "Z" -> "Multiple" [] c = " " -> "Unspecified"]

\* what a table says of a byte: the enumerator of its letter, or
\* Unrecognized with the byte
Decoded(table, byte) ==
    IF \E c \in DOMAIN table : Byte(c) = byte
    THEN Enum(table[CHOOSE c \in DOMAIN table : Byte(c) = byte])
    ELSE Unrecognized(byte)

\* C21: for every flags value and terminal region parse_wpt_flags answers
\* what the three tables say of the three low bytes of the value (P and S
\* of byte 1 read by terminal_region # ENRT), an unlisted byte coming back
\* in Unrecognized, and the top byte changes nothing.
C21_FlagsTableDriven ==
    FlagsDecoded =>
        LET f == rp.funny_flags
            terminal == rp.terminal_area # "ENRT"
        IN /\ result.val.typ = Decoded(FixTypeOf, f.lo % 256)
           /\ result.val.func = Decoded(FixFunctionOf(terminal), f.lo \div 256)
           /\ result.val.proc = Decoded(FixProcedureOf, f.hi % 256)
           /\ \A b3 \in 0..255 :
                 parse_wpt_flags(U32(256 * b3 + (f.hi % 256), f.lo), terminal)
                    = result.val

\* flags with P in byte 1 decoded in a terminal region, an unlisted byte 0
\* and a top byte that is not zero
C21_Witness ==
    /\ FlagsDecoded
    /\ rp.terminal_area # "ENRT"
    /\ rp.funny_flags.lo \div 256 = Byte("P")
    /\ result.val.func = Enum("UnnamedStepdownFix")
    /\ result.val.typ = Unrecognized(255)
    /\ rp.funny_flags.hi \div 256 = 255

\* the flags 11587648 of a fix in ENRT have been decoded
Flags11587648Decoded ==
    /\ FlagsDecoded
    /\ rp.funny_flags = ToU32(11587648)
    /\ rp.terminal_area = "ENRT"

\* C22 as stated: decoding the flags 11587648 of a fix whose terminal
\* region is ENRT yields typ = NamedIntx, func = Unspecified and
\* proc = Unspecified.
C22_Flags11587648NamedIntx ==
    Flags11587648Decoded =>
        /\ result.val.typ = [v |-> "NamedIntx"]
        /\ result.val.func = [v |-> "Unspecified"]
        /\ result.val.proc = [v |-> "Unspecified"]

\* C22 amended: 11587648 is 0x00B0D040, whose little-endian bytes 0x40,
\* 0xD0 and 0xB0 are listed in no table, so decoding it for a fix in ENRT
\* yields typ = Unrecognized(64), func = Unrecognized(208) and
\* proc = Unrecognized(176).
C22_Flags11587648Unrecognized ==
    Flags11587648Decoded =>
        /\ result.val.typ = [v |-> "Unrecognized", byte |-> 64]
        /\ result.val.func = [v |-> "Unrecognized", byte |-> 208]
        /\ result.val.proc = [v |-> "Unrecognized", byte |-> 176]

C22_Witness ==
    /\ Flags11587648Decoded
    /\ to_le_bytes(rp.funny_flags) = << 64, 208, 176, 0 >>

-----------------------------------------------------------------------------
(* Properties of the localizer course (SpecLoc) *)

\* the two courses of a funny number that is not negative are there
CourseSplit ==
    /\ rp # None /\ rp.at = "done" /\ result.t = "Value"
    /\ rp.funny_number.m >= 0

\* the units of 10^-s the number d is worth, for s >= d.scale
AtScale(d, s) == d.m * 10 ^ (s - d.scale)

\* the number is whole
Whole(d) == d.m % (10 ^ d.scale) = 0

\* C23: for every funny_number that is not negative, crs_true is
\* funny_number mod 360 with 0 <= crs_true < 360, crs_mag is a whole
\* number, and crs_mag * 360 + crs_true is funny_number exactly.
C23_LocCourseSplit ==
    CourseSplit =>
        LET n == rp.funny_number
            t == result.val.crs_true
            g == result.val.crs_mag
            s == n.scale
        IN /\ t.scale <= s
           /\ 0 <= t.m /\ AtScale(t, s) < 360 * 10 ^ s
           /\ (n.m - AtScale(t, s)) % (360 * 10 ^ s) = 0
           /\ Whole(g)
           /\ (g.m \div (10 ^ g.scale)) * 360 * 10 ^ s + AtScale(t, s) = n.m

\* 129599.99 splits into 359 and 359.99
C23_Witness ==
    /\ CourseSplit
    /\ rp.funny_number = Dec(12959999, 2)
    /\ result.val.crs_mag = Dec(359, 0)
    /\ result.val.crs_true = Dec(35999, 2)

-----------------------------------------------------------------------------
(* Properties of the resolution of references (SpecGraph) *)

\* a step of the airway parser that handed a row to the closure
AwyRowHandled ==
    /\ pc = Pc("earth_awy", "rows")
    /\ last_line'.k = "row"
    /\ parsed_edge' = last_line'.row

\* the vertex e is of the kind the reference ref asks for and has its ident
\* and region
RefersTo(ref, e) ==
    CASE ref.typ = "Fix" ->
           /\ e.t = "Fix"
           /\ e.fix.ident = ref.ident
           /\ e.fix.icao_region = ref.icao_region
      [] ref.typ = "Vhf" ->
           /\ e.t = "Navaid"
           /\ e.navaid.ident = ref.ident
           /\ e.navaid.icao_region = ref.icao_region
           /\ \/ e.navaid.type_data.kind = "Vor"
              \/ e.navaid.type_data = Dme(e.navaid.type_data.terminal_region,
                                          TRUE)
      [] ref.typ = "Ndb" ->
           /\ e.t = "Navaid"
           /\ e.navaid.ident = ref.ident
           /\ e.navaid.icao_region = ref.icao_region
           /\ e.navaid.type_data.kind = "Ndb"

\* i is the lowest index of a vertex the reference refers to
LowestReferred(ref, i) ==
    /\ i \in 1..Len(nodes)
    /\ RefersTo(ref, nodes[i])
    /\ \A j \in 1..(i - 1) : ~RefersTo(ref, nodes[j])

\* C25: the edges an airway row adds join, for each of its two references,
\* the lowest-index vertex of the kind the reference asks for with its ident
\* and region (Fix: a fix; VHF: a VOR or a DME with display_freq = true;
\* NDB: an NDB); a row with a reference no such vertex answers adds no edge.
C25_AwyRefLowestIndex ==
    [][AwyRowHandled =>
          LET r == parsed_edge'
          IN IF Added = << >>
             THEN \/ r.direction \notin {"N", "F", "B"}
                  \/ \A i \in 1..Len(nodes) : ~RefersTo(r.first, nodes[i])
                  \/ \A i \in 1..Len(nodes) : ~RefersTo(r.second, nodes[i])
             ELSE \A k \in 1..Len(Added) :
                     LET fwd == r.direction = "F"
                                \/ (r.direction = "N" /\ k % 2 = 1)
                         a == IF fwd THEN Added[k].from ELSE Added[k].to
                         b == IF fwd THEN Added[k].to ELSE Added[k].from
                     IN /\ LowestReferred(r.first, a)
                        /\ LowestReferred(r.second, b)
      ]_vars

\* a VHF reference went past a DME with display_freq = false to the VOR
\* behind it
C25_Witness ==
    /\ pc = Pc("earth_awy", "rows")
    /\ parsed_edge # None
    /\ parsed_edge.first = NodeRef("OSI", "K2", "Vhf")
    /\ parsed_edge.second = NodeRef("OSI", "K2", "Ndb")
    /\ parsed_edge.direction = "F"
    /\ nodes = << NavaidEntry(Navaid("OSI", "K2", Dme("ENRT", FALSE), 3)),
                  NavaidEntry(Navaid("OSI", "K2", Vor, 1)),
                  NavaidEntry(Navaid("OSI", "K2", Ndb("ENRT"), 2)) >>
    /\ Len(edges) = 1
    /\ edges[1].from = 2 /\ edges[1].to = 3

\* the pre-filter of the hold parser lets the vertex e through for a hold
\* in the terminal region t
Admits(t, e) ==
    IF e.t = "Fix" THEN e.fix.terminal_region = t
    ELSE CASE e.navaid.type_data.kind = "Vor" -> t = "ENRT"
           [] e.navaid.type_data.kind \in {"Ndb", "Dme"} ->
                e.navaid.type_data.terminal_region = t
           [] OTHER -> FALSE

\* the step took the hold row in and went on
HoldRowAccepted == HoldRowHandled /\ pc' = pc /\ budget' = budget - 1

\* C26: an accepted hold row adds exactly one edge, a self-loop on the
\* lowest-index vertex that the pre-filter lets through (a fix of the hold's
\* terminal region, a VOR when that region is ENRT, an NDB or DME of that
\* region) and that the reference refers to; a hold row with no such vertex
\* fails with ReferencedNonexistentWpt, also when vertices the pre-filter
\* holds back have its ident, region and kind.
C26_HoldPointResolution ==
    [][HoldRowHandled =>
          LET r == parsed_edge'
              answers == {i \in 1..Len(nodes) :
                             /\ Admits(r.terminal_region, nodes[i])
                             /\ RefersTo(r.hold_point, nodes[i])}
          IN /\ HoldRowAccepted =>
                  /\ Len(Added) = 1
                  /\ Added[1].w.t = "Hold"
                  /\ Added[1].from = Added[1].to
                  /\ Added[1].from \in answers
                  /\ \A j \in answers : Added[1].from <= j
             /\ answers = {} =>
                  /\ FailedWith(result', "ReferencedNonexistentWpt")
                  /\ edges' = edges
      ]_vars

\* a hold in KSFO on the VHF navaid OSI went past the DME without displayed
\* frequency and the VOR to the DME of KSFO
C26_Witness ==
    /\ pc = Pc("earth_hold", "rows")
    /\ parsed_edge # None
    /\ parsed_edge.hold_point = NodeRef("OSI", "K2", "Vhf")
    /\ parsed_edge.terminal_region = "KSFO"
    /\ nodes = << NavaidEntry(Navaid("OSI", "K2", Dme("ENRT", FALSE), 3)),
                  NavaidEntry(Navaid("OSI", "K2", Vor, 1)),
                  NavaidEntry(Navaid("OSI", "K2", Dme("KSFO", TRUE), 4)) >>
    /\ Len(edges) = 1
    /\ edges[1].from = 3 /\ edges[1].to = 3

-----------------------------------------------------------------------------
(* Properties of the check of the last line (Spec) *)

\* C28: the fix, navaid, airway and hold parsers never answer BadLastLine:
\* the line their last check looks at is `99` whenever there is one, and a
\* file that ends without a `99` is answered with MissingLine, or with the
\* Parse error of a row before its end.
C28_BadLastLineUnreachable ==
    [][/\ ~FailedWith(result', "BadLastLine")
       /\ (InRowLoop /\ ~TakesLine(last_line') /\ last_line' # Blank) =>
             \/ last_line' = Sentinel
             \/ last_line' = Eof /\ result' = Err([e |-> "MissingLine"])
      ]_vars

\* a file with a line that is no row and without a `99`: the Parse error of
\* the row
C28_Witness ==
    /\ pc = Pc("earth_hold", "failed")
    /\ last_line = Junk
    /\ result = Err(Parse("hold row"))

-----------------------------------------------------------------------------
(* Properties of the reach of airway_find (SpecQuery) *)

\* airway_find has returned for a start that is a vertex with an edge of
\* the airway leaving it
PassedStartCheck ==
    /\ QueryDone("airway_find")
    /\ q.start \in 1..Len(nodes)
    /\ \E i \in AwyEdgesOf(q.awy) : edges[i].from = q.start

\* the vertices named end that a directed path of edges of the airway leads
\* to from start, start included
NamedEndInReach ==
    {v \in DirectedReach({q.start}, q.awy) : IdentAt(v) = q.end}

\* C29: for a start that passes the start check, airway_find(start, awy,
\* end) returns Ok with every vertex named end that a directed path of
\* edges of the airway awy leads to from start (start itself when it is
\* named end), and NotOnAirway with start = false only when there is no such
\* vertex.
C29_AirwayFindComplete ==
    PassedStartCheck =>
        /\ NamedEndInReach # {} =>
              /\ result.t = "Ok"
              /\ \A v \in NamedEndInReach :
                    \E k \in 1..Len(result.val) : result.val[k] = << v, nodes[v] >>
        /\ (FailedWith(result, "NotOnAirway") /\ result.err.start = FALSE) =>
              NamedEndInReach = {}
        /\ result.t \in {"Ok", "Err"}
        /\ result.t = "Err" => FailedWith(result, "NotOnAirway")
                               /\ result.err.start = FALSE

\* the airway forks at start, and both branches end in a vertex named end
C29_Witness ==
    /\ PassedStartCheck
    /\ q.start = 2
    /\ Len(edges) = 2
    /\ edges[1].from = 2 /\ edges[1].to = 1
    /\ edges[2].from = 2 /\ edges[2].to = 3
    /\ IdentAt(1) = q.end /\ IdentAt(3) = q.end
    /\ result.t = "Ok"
    /\ Len(result.val) = 2

-----------------------------------------------------------------------------
(* Properties of the errors of a hold row (SpecGraph) *)

\* C30: a hold row is answered with ReferencedNonexistentWpt when its hold
\* point does not resolve, whatever else is wrong with it; with
\* InvalidHoldDir when the hold point resolves and the direction is neither
\* L nor R, whatever its leg lengths; with ConflictingHoldLegLengths when
\* only the leg lengths are wrong.  A row answered with an error adds no
\* edge and ends the parser, which handles no row after it.
C30_HoldErrorPrecedence ==
    [][/\ HoldRowHandled =>
             LET r == parsed_edge'
                 resolves == \E i \in 1..Len(nodes) :
                                /\ Admits(r.terminal_region, nodes[i])
                                /\ RefersTo(r.hold_point, nodes[i])
                 turns == r.direction \in {"L", "R"}
                 one_length == r.leg_time_min = 0 \/ r.leg_length_nm = 0
             IN /\ ~resolves =>
                     result' = Err(ReferencedNonexistentWpt(r.hold_point.ident))
                /\ (resolves /\ ~turns) =>
                     result' = Err(InvalidHoldDir(r.direction))
                /\ (resolves /\ turns /\ ~one_length) =>
                     result' = Err(ConflictingHoldLegLengths(r.leg_time_min,
                                                             r.leg_length_nm))
                /\ (resolves /\ turns /\ one_length) => result' = result
                /\ result'.t = "Err" =>
                     /\ edges' = edges
                     /\ pc' = Pc("earth_hold", "failed")
       /\ pc.at = "failed" => (edges' = edges /\ parsed_edge' = parsed_edge)
      ]_vars

\* a row with the three defects is answered with the first
C30_Witness ==
    /\ pc = Pc("earth_hold", "failed")
    /\ parsed_edge # None
    /\ parsed_edge.direction = "X"
    /\ parsed_edge.leg_time_min = 1
    /\ parsed_edge.leg_length_nm = 5
    /\ nodes # << >>
    /\ result = Err(ReferencedNonexistentWpt(parsed_edge.hold_point.ident))
    /\ edges = << >>

=============================================================================
